---- MODULE Spec2Model ----
(***************************************************************************)
(* Wayback job orchestration of SignalMap (apps/api): the job tables, the  *)
(* snapshot cache, the three background runners, cancel/delete and the     *)
(* cache-first read paths, together with the connector functions the       *)
(* runners call (dedup, samplers, extractors).                             *)
(*                                                                         *)
(* Conventions.  SQL NULL / Python None is the empty tuple and a present   *)
(* value v is <<v>>.  Confidences are kept in hundredths (0.75 is 75).     *)
(* A 14-digit CDX timestamp is an integer whose quotient by YearSpan is    *)
(* its capture year (the code's ts[:4]).  Every `with cursor()` block is   *)
(* one transaction: it either commits all of its statements or raises      *)
(* before any of them took effect.  All requests of a behaviour are for    *)
(* one profile (a platform and its canonical URL), whose captures in the   *)
(* Wayback index do not change during the behaviour.                       *)
(***************************************************************************)
EXTENDS Integers, Sequences, FiniteSets, TLC

\* ---------------------------------------------------------------- bounds
MaxSnaps == 2
MaxSample == 2
MaxInput == 4
MaxCalls == 2

\* ---------------------------------------------------------------- values
None == << >>
Some(v) == << v >>
IsNone(x) == x = None
Val(x) == x[1]

YearSpan == 10

PLATFORM == "instagram"
PLATFORM_TWITTER == "twitter"
PLATFORM_YOUTUBE == "youtube"
Platforms == {PLATFORM, PLATFORM_TWITTER, PLATFORM_YOUTUBE}

JobIds == {1, 2}

\* The canonical profile URL each create_*_job stores for the one handle "h".
CanonicalUrl(platform) ==
    CASE platform = PLATFORM -> "https://www.instagram.com/h/"
      [] platform = PLATFORM_TWITTER -> "https://twitter.com/h"
      [] OTHER -> "https://www.youtube.com/@h"

\* ------------------------------------------------------------- snapshots
\* The n-th capture time the index knows: years alternate, so that already
\* two captures lie in two different years.
Ts(n) == YearSpan * (1 + ((n - 1) % 2)) + (1 + ((n - 1) \div 2))
JobTimestamps == {Ts(n) : n \in 1..MaxSnaps}
Year(ts) == ts \div YearSpan

\* An original URL as the index reports it, by the parts the code looks at.
Url(scheme, www, port80, slash, path) ==
    [scheme |-> scheme, www |-> www, port80 |-> port80, slash |-> slash, path |-> path]
ModernUrl == Url("https", TRUE, FALSE, TRUE, "h")
LegacyUrl == Url("http", FALSE, TRUE, FALSE, "h")

Snapshot(ts, original) == [timestamp |-> ts, original |-> original]

\* A variant that normalises the original URL to its modern spelling.
_build_archived_url_normalized(timestamp, original_url) ==
    << "https://web.archive.org/web/", timestamp, "/", ModernUrl >>

_build_archived_url(timestamp, original_url) ==
    << "https://web.archive.org/web/", timestamp, "/", original_url >>

\* sorted(xs, key=timestamp): stable insertion sort.
RECURSIVE InsertByTs(_, _)
InsertByTs(s, sorted) ==
    IF sorted = << >> THEN << s >>
    ELSE IF Head(sorted).timestamp <= s.timestamp
         THEN << Head(sorted) >> \o InsertByTs(s, Tail(sorted))
         ELSE << s >> \o sorted
RECURSIVE SortByTs(_)
SortByTs(xs) ==
    IF xs = << >> THEN << >>
    ELSE InsertByTs(xs[Len(xs)], SortByTs(SubSeq(xs, 1, Len(xs) - 1)))

Max2(a, b) == IF a >= b THEN a ELSE b
Min2(a, b) == IF a <= b THEN a ELSE b

\* url.lower() on the path part; the model's paths differ in case only here.
Lower(path) == IF path = "H" THEN "h" ELSE path

\* Scheme, ":80", "www." and the trailing slash are dropped, the rest lowercased.
_normalize_url_for_dedup(url) == Lower(url.path)

_url_preference_score(url) ==
    (IF url.scheme = "https" THEN 2 ELSE IF url.scheme = "http" THEN 1 ELSE 0)
    + (IF url.www /\ url.scheme # "" THEN 1 ELSE 0)

DedupKey(s) == << s.timestamp, _normalize_url_for_dedup(s.original) >>

\* A variant of the fold that replaces the kept snapshot on an equal score too.
RECURSIVE DedupFold_keep_last(_, _)
DedupFold_keep_last(snapshots, seen) ==
    IF snapshots = << >> THEN seen
    ELSE LET s == Head(snapshots)
             hit == {k \in 1..Len(seen) : DedupKey(seen[k]) = DedupKey(s)}
         IN IF hit = {}
            THEN DedupFold_keep_last(Tail(snapshots), Append(seen, s))
            ELSE LET k == CHOOSE x \in hit : TRUE
                 IN IF _url_preference_score(s.original)
                        >= _url_preference_score(seen[k].original)
                    THEN DedupFold_keep_last(Tail(snapshots), [seen EXCEPT ![k] = s])
                    ELSE DedupFold_keep_last(Tail(snapshots), seen)

\* deduplicate_snapshots: a dict keyed by (timestamp, normalized url); a later
\* snapshot replaces the kept one only on a strictly higher score, and keeps
\* the position of the key's first occurrence (dict insertion order).
RECURSIVE DedupFold(_, _)
DedupFold(snapshots, seen) ==
    IF snapshots = << >> THEN seen
    ELSE LET s == Head(snapshots)
             hit == {k \in 1..Len(seen) : DedupKey(seen[k]) = DedupKey(s)}
         IN IF hit = {}
            THEN DedupFold(Tail(snapshots), Append(seen, s))
            ELSE LET k == CHOOSE x \in hit : TRUE
                 IN IF _url_preference_score(s.original)
                        > _url_preference_score(seen[k].original)
                    THEN DedupFold(Tail(snapshots), [seen EXCEPT ![k] = s])
                    ELSE DedupFold(Tail(snapshots), seen)
deduplicate_snapshots(snapshots) == DedupFold(snapshots, << >>)

\* [j * step for j in range(n)], kept where the index is inside the list.
Strided(xs, n, step) ==
    LET idx == [j \in 1..n |-> (j - 1) * step]
        RECURSIVE Pick(_)
        Pick(j) == IF j > n THEN << >>
                   ELSE (IF idx[j] < Len(xs) THEN << xs[idx[j] + 1] >> ELSE << >>)
                        \o Pick(j + 1)
    IN Pick(1)

\* evenly_sample (Twitter and YouTube connectors): uniform stride.
StrideSorted(sorted_snaps, sample) ==
    IF Len(sorted_snaps) <= sample THEN sorted_snaps
    ELSE SortByTs(Strided(sorted_snaps, sample, Max2(1, Len(sorted_snaps) \div sample)))
evenly_sample(snapshots, sample) ==
    IF snapshots = << >> THEN << >> ELSE StrideSorted(SortByTs(snapshots), sample)

\* years = sorted(by_year.keys()) of an ascending list: its years, ascending.
RECURSIVE SortedYears(_)
SortedYears(S) ==
    IF S = {} THEN << >>
    ELSE LET m == CHOOSE y \in S : \A z \in S : y <= z
         IN << m >> \o SortedYears(S \ {m})
YearsOf(sorted_snaps) ==
    SortedYears({Year(sorted_snaps[k].timestamp) : k \in 1..Len(sorted_snaps)})

\* The share of one year: all of its snapshots, or n_take of them by stride.
TakeFromYear(year_snaps, n) ==
    LET n_take == Min2(n, Len(year_snaps))
    IN IF n_take >= Len(year_snaps) THEN year_snaps
       ELSE Strided(year_snaps, n_take, Max2(1, Len(year_snaps) \div n_take))

\* A variant of the loop over the years: one stride over the whole list.
Stratified_one_stride(sorted_snaps, years, sample) ==
    Strided(sorted_snaps, sample, Max2(1, Len(sorted_snaps) \div sample))

\* The loop over the years: per_year each, one more for the first remainder years.
Stratified(sorted_snaps, years, sample) ==
    LET per_year == Max2(1, sample \div Len(years))
        remainder == sample - per_year * Len(years)
        RECURSIVE Collect(_)
        Collect(i) ==
            IF i > Len(years) THEN << >>
            ELSE TakeFromYear(SelectSeq(sorted_snaps, LAMBDA s : Year(s.timestamp) = years[i]),
                              per_year + (IF (i - 1) < remainder THEN 1 ELSE 0))
                 \o Collect(i + 1)
    IN Collect(1)

SampleSorted(sorted_snaps, sample) ==
    IF Len(sorted_snaps) <= sample THEN sorted_snaps
    ELSE SortByTs(Stratified(sorted_snaps, YearsOf(sorted_snaps), sample))

\* evenly_sample_snapshots (Instagram connector): year-stratified.
evenly_sample_snapshots(snapshots, sample) ==
    IF snapshots = << >> THEN << >> ELSE SampleSorted(SortByTs(snapshots), sample)

\* ------------------------------------------------------------ extractors
\* Archived HTML is modelled by what the extractors' regular expressions find
\* in it.  Instagram: og/desc/ctx are the evidence candidates (None when the
\* page has none), each with the three counts the candidate's text parses to;
\* shared, edge and direct are the matches of the later strategies.
Counts(f, g, p) == [f |-> f, g |-> g, p |-> p]
NoCounts == Counts(None, None, None)
IgHtml(og, desc, ctx, shared, edge, direct) ==
    [og |-> og, desc |-> desc, ctx |-> ctx, shared |-> shared, edge |-> edge,
     direct |-> direct]

Metric(value, confidence, evidence) ==
    [value |-> value, confidence |-> confidence, evidence |-> evidence]
empty == Metric(None, 0, None)

SaneFollowers(v) == IF ~IsNone(v) /\ (Val(v) <= 0 \/ Val(v) >= 1000000000) THEN None ELSE v
SaneCount(v) == IF ~IsNone(v) /\ (Val(v) < 0 \/ Val(v) >= 100000000) THEN None ELSE v
CountFound(c) ==
    (IF IsNone(c.f) THEN 0 ELSE 1) + (IF IsNone(c.g) THEN 0 ELSE 1)
    + (IF IsNone(c.p) THEN 0 ELSE 1)

\* _extract_from_shared_data: None unless followed_by matched with a plausible
\* count; follows and media are optional.
SharedCounts(m) ==
    IF 0 < Val(m.f) /\ Val(m.f) < 1000000000
    THEN Some(Counts(m.f, SaneCount(m.g), SaneCount(m.p)))
    ELSE None
_extract_from_shared_data(html) ==
    IF IsNone(html.shared) THEN None ELSE SharedCounts(Val(html.shared))

_extract_followers_from_edge_followed_by(html) ==
    IF ~IsNone(html.edge) /\ 0 < Val(html.edge) /\ Val(html.edge) < 1000000000
    THEN Some(Metric(html.edge, 50, Some("edge_followed_by")))
    ELSE None

\* One turn of the candidate loop: the sanity checks, count_found >= 2 and the
\* confidence of the candidate's source.
Parsed(source, v) ==
    IF CountFound(v) < 2 THEN None
    ELSE Some([conf |-> IF source = "context" THEN 55 ELSE 75,
               evidence |-> source, parsed |-> v])
Cand(source, c) ==
    IF IsNone(c) THEN None
    ELSE Parsed(source, Counts(SaneFollowers(Val(c).f), SaneCount(Val(c).g),
                               SaneCount(Val(c).p)))

\* conf > best_confidence: the first candidate of the highest confidence.
BestOf(cands) ==
    LET usable == {k \in 1..Len(cands) : ~IsNone(cands[k])}
    IN IF usable = {} THEN None
       ELSE cands[CHOOSE k \in usable :
                    \A m \in usable :
                       \/ Val(cands[m]).conf < Val(cands[k]).conf
                       \/ (Val(cands[m]).conf = Val(cands[k]).conf /\ k <= m)]

\* The direct scan's result: each value found, with the scan's confidence.
Direct(direct, conf) ==
    [followers |-> IF IsNone(direct.f) THEN empty
                   ELSE Metric(direct.f, conf, Some("direct followers")),
     following |-> IF IsNone(direct.g) THEN empty
                   ELSE Metric(direct.g, conf, Some("direct following")),
     posts |-> IF IsNone(direct.p) THEN empty
               ELSE Metric(direct.p, conf, Some("direct posts"))]

\* The order of the strategies after the candidate loop: _sharedData, then
\* edge_followed_by, then the direct scan, each only without a best candidate.
Strategies(best, shared, edge_result, direct) ==
    IF ~IsNone(shared) /\ IsNone(best)
    THEN [followers |-> Metric(Val(shared).f, 75, Some("followed_by from _sharedData")),
          following |-> IF IsNone(Val(shared).g) THEN empty
                        ELSE Metric(Val(shared).g, 75, None),
          posts |-> IF IsNone(Val(shared).p) THEN empty
                    ELSE Metric(Val(shared).p, 75, None)]
    ELSE IF IsNone(best) /\ ~IsNone(edge_result)
    THEN [followers |-> Val(edge_result), following |-> empty, posts |-> empty]
    ELSE IF CountFound(direct) >= 1 /\ IsNone(best)
    THEN Direct(direct, IF CountFound(direct) >= 2 THEN 50 ELSE 35)
    ELSE IF ~IsNone(best)
    THEN [followers |-> Metric(Val(best).parsed.f, Val(best).conf, Some(Val(best).evidence)),
          following |-> Metric(Val(best).parsed.g, Val(best).conf, Some(Val(best).evidence)),
          posts |-> Metric(Val(best).parsed.p, Val(best).conf, Some(Val(best).evidence))]
    ELSE [followers |-> empty, following |-> empty, posts |-> empty]

extract_instagram_metrics(html) ==
    Strategies(BestOf(<< Cand("og:description", html.og), Cand("description", html.desc),
                         Cand("context", html.ctx) >>),
               _extract_from_shared_data(html),
               _extract_followers_from_edge_followed_by(html),
               Counts(SaneFollowers(html.direct.f), SaneCount(html.direct.g),
                      SaneCount(html.direct.p)))

\* Twitter / YouTube HTML: the numbers the "<n> followers" / "<n> subscribers"
\* pattern parses to, in document order, inside the description meta tags
\* (meta), in the whole text (text) and, YouTube only, after the word (rev).
CountHtml(meta, text, rev) == [meta |-> meta, text |-> text, rev |-> rev]
\* 0 < val < 10_000_000_000, written with the quotient by ten (the same set of
\* integers) to stay inside the checker's 32-bit numbers.
Plausible(v) == 0 < v /\ (v \div 10) < 1000000000
FirstPlausible(vals) ==
    LET ok == {k \in 1..Len(vals) : Plausible(vals[k])}
    IN IF ok = {} THEN None ELSE Some(vals[CHOOSE k \in ok : \A m \in ok : k <= m])

\* The first pattern with a plausible match decides: meta tags at 0.75, then
\* the text at 0.5, then (YouTube) the reversed order at 0.5.
FirstMatch(meta, text, rev) ==
    IF ~IsNone(meta) THEN Metric(meta, 75, Some("meta"))
    ELSE IF ~IsNone(text) THEN Metric(text, 50, Some("text"))
    ELSE IF ~IsNone(rev) THEN Metric(rev, 50, Some("rev"))
    ELSE Metric(None, 0, None)

extract_followers(html) ==
    FirstMatch(FirstPlausible(html.meta), FirstPlausible(html.text), None)

extract_subscribers(html) ==
    FirstMatch(FirstPlausible(html.meta), FirstPlausible(html.text),
               FirstPlausible(html.rev))

\* The archived page a successful fetch returns in the job runs: one page with
\* metrics per platform (Instagram's with followers absent, so that a cached
\* row can hold metrics without holding followers).
IgPageNoMetrics == IgHtml(None, None, None, None, None, NoCounts)
IgPageSharedData ==
    IgHtml(None, None, None, Some(Counts(Some(406462), Some(14), Some(164))), None, NoCounts)
IgPageMetaNoFollowers ==
    IgHtml(Some(Counts(None, Some(9), Some(3))), None, None, None, None, NoCounts)
PageNoCount == CountHtml(<< >>, << >>, << >>)
PageMetaCount == CountHtml(<< 850000 >>, << >>, << >>)
Pages(platform) ==
    IF platform = PLATFORM
    THEN {IgPageMetaNoFollowers}
    ELSE {PageMetaCount}
\* ---------------------------------------------------------------- state
VARIABLES
    jobs,       \* table wayback_jobs: job_id -> row, for the rows that exist
    snaps,      \* table wayback_job_snapshots: the set of its rows
    cache,      \* table wayback_snapshot_cache: the set of its rows
    run,        \* job_id -> the background task's position and local variables
    nextJob,    \* the next fresh job id (uuid4 never repeats)
    profile,    \* the platform of the one profile all requests of a run are for
    index,      \* the captures the Wayback index holds for that profile
    \* history variables, written by the actions and read by no guard
    ack,        \* the jobs for which a cancel_job call has returned true
    effects,    \* job_id -> fetches and store writes its task has performed
    cacheLog,   \* every cache write so far: its key and whether the writing
                \* operation had fetched that snapshot
    lastUpsert, \* for every key written, the row of its last committed upsert
    call        \* a connector function called on its own: its arguments, the
                \* position inside it and its result

tables == << jobs, snaps, cache >>
history == << ack, effects, cacheLog, lastUpsert >>
world == << profile, index, call >>
vars == << jobs, snaps, cache, run, nextJob, profile, index, ack, effects, cacheLog,
          lastUpsert, call >>

Terminal == {"completed", "failed", "canceled"}

\* A row of wayback_jobs as create_*_job inserts it (schema defaults: total
\* and processed 0, everything else NULL).
NewJobRow(platform, sample) ==
    [platform |-> platform, canonical_url |-> CanonicalUrl(platform), sample |-> sample,
     status |-> "queued", started_at |-> None, finished_at |-> None,
     total |-> Some(0), processed |-> Some(0), error |-> None,
     snapshots_found |-> None, snapshots_sampled |-> None,
     snapshots_with_metrics |-> None, snapshots_cached |-> None,
     snapshots_fetched |-> None, summary |-> None]

NoMetrics == [followers |-> None, following |-> None, posts |-> None, subscribers |-> None]

\* The task's locals outside an iteration.
IdleLocals ==
    [cached |-> None, html |-> None, m |-> NoMetrics, confidence |-> 0,
     evidence |-> None, source |-> "", fetchedTs |-> None, upserted |-> FALSE,
     \* history: the URL the fetcher has requested in this iteration
     requested |-> None]
NoTask ==
    [pc |-> "none", platform |-> "", canonical_url |-> "", sample |-> 0,
     sampled |-> << >>, i |-> 0, snapshots_found |-> 0, processed |-> 0,
     snapshots_cached |-> 0, snapshots_fetched |-> 0, snapshots_with_metrics |-> 0,
     e |-> None, it |-> IdleLocals]

\* What the index can hold for a profile: any subset of the captures, ascending,
\* under the modern URL spelling.
RECURSIVE AscendingSnaps(_)
AscendingSnaps(S) ==
    IF S = {} THEN << >>
    ELSE LET m == CHOOSE t \in S : \A u \in S : t <= u
         IN << Snapshot(m, ModernUrl) >> \o AscendingSnaps(S \ {m})
IndexAnswers == {AscendingSnaps(S) : S \in SUBSET JobTimestamps}
\* The same captures, each under the modern or the legacy spelling of the URL.
SpelledAnswers ==
    UNION {{[k \in DOMAIN a |-> Snapshot(a[k].timestamp, u[k])]
               : u \in [DOMAIN a -> {ModernUrl, LegacyUrl}]} : a \in IndexAnswers}
\* list_snapshots: the captures of the index, or nothing when every index
\* request failed (the connectors swallow the failure).
ListAnswers(held) == {held, << >>}

\* The metrics that decide a cache hit, per runner.
MetricFields(platform) ==
    CASE platform = PLATFORM -> {"followers", "following", "posts"}
      [] platform = PLATFORM_TWITTER -> {"followers"}
      [] OTHER -> {"subscribers"}

\* Variants of has_metrics: one that never takes a cached row, one that takes
\* any cached row.  The properties on cache hits and misses fail under them.
has_metrics_never(platform, cached) == FALSE
has_metrics_any_row(platform, cached) == ~IsNone(cached)

\* has_metrics (jobs.py:142, 928, 1355): a cached row with a non-NULL metric.
has_metrics(platform, cached) ==
    ~IsNone(cached) /\ \E f \in MetricFields(platform) : ~IsNone(Val(cached)[f])

\* x or 0.2 on a confidence: None and 0.0 are falsy.
OrDefault(confidence) == IF confidence = 0 THEN 20 ELSE confidence

CacheKey(r) == << r.platform, r.canonical_url, r.timestamp >>

\* A variant of the upsert that keeps the existing row (ON CONFLICT DO NOTHING).
UpsertCache_keep_first(c, row) ==
    IF \E r \in c : CacheKey(r) = CacheKey(row) THEN c ELSE c \cup {row}

\* INSERT ... ON CONFLICT (platform, canonical_url, timestamp) DO UPDATE SET
\* <the platform's metric columns>, confidence, evidence.
Excluded(r, row) ==
    CASE row.platform = PLATFORM ->
           [r EXCEPT !.followers = row.followers, !.following = row.following,
                     !.posts = row.posts, !.confidence = row.confidence,
                     !.evidence = row.evidence]
      [] row.platform = PLATFORM_TWITTER ->
           [r EXCEPT !.followers = row.followers, !.confidence = row.confidence,
                     !.evidence = row.evidence]
      [] OTHER ->
           [r EXCEPT !.subscribers = row.subscribers, !.confidence = row.confidence,
                     !.evidence = row.evidence]
UpsertCache(c, row) ==
    IF \E r \in c : CacheKey(r) = CacheKey(row)
    THEN {IF CacheKey(r) = CacheKey(row) THEN Excluded(r, row) ELSE r : r \in c}
    ELSE c \cup {row}

CacheRow(platform, canonical_url, timestamp, original, archived, m, confidence, evidence) ==
    [platform |-> platform, canonical_url |-> canonical_url, timestamp |-> timestamp,
     original_url |-> original, archived_url |-> archived,
     followers |-> m.followers, following |-> m.following, posts |-> m.posts,
     subscribers |-> m.subscribers, confidence |-> confidence, evidence |-> evidence]

SnapKey(r) == << r.job_id, r.timestamp >>

\* INSERT INTO wayback_job_snapshots ... ON CONFLICT (job_id, timestamp) DO UPDATE.
UpsertSnap(t, row) == {r \in t : SnapKey(r) # SnapKey(row)} \cup {row}

\* SELECT ... FROM wayback_snapshot_cache WHERE platform, canonical_url, timestamp.
CacheLookup(c, platform, canonical_url, timestamp) ==
    LET hit == {r \in c : CacheKey(r) = << platform, canonical_url, timestamp >>}
    IN IF hit = {} THEN None ELSE Some(CHOOSE r \in hit : TRUE)

\* fetch_snapshot_html: absent HTML or one of the archived pages.
FetchOutcomes(platform) == {None} \cup {Some(page) : page \in Pages(platform)}

\* The runner's per-snapshot values after a fetch (jobs.py:159-171, 938-947,
\* 1365-1374).
IgValues(metrics) ==
    LET order == << metrics.followers, metrics.following, metrics.posts >>
        confs == {order[k].confidence : k \in {n \in 1..3 : ~IsNone(order[n].value)}}
        evs == {k \in 1..3 : ~IsNone(order[k].evidence)}
    IN [m |-> [followers |-> metrics.followers.value,
               following |-> metrics.following.value,
               posts |-> metrics.posts.value, subscribers |-> None],
        confidence |-> IF confs = {} THEN 20
                       ELSE CHOOSE c \in confs : \A d \in confs : d <= c,
        evidence |-> IF evs = {} THEN None
                     ELSE order[CHOOSE k \in evs : \A n \in evs : k <= n].evidence]
CountValues(field, extracted) ==
    [m |-> [NoMetrics EXCEPT ![field] = extracted.value],
     confidence |-> OrDefault(extracted.confidence),
     evidence |-> extracted.evidence]
Extracted(platform, html) ==
    IF IsNone(html)
    THEN [m |-> NoMetrics, confidence |-> 0, evidence |-> None]
    ELSE IF platform = PLATFORM
    THEN IgValues(extract_instagram_metrics(Val(html)))
    ELSE IF platform = PLATFORM_TWITTER
    THEN CountValues("followers", extract_followers(Val(html)))
    ELSE CountValues("subscribers", extract_subscribers(Val(html)))

\* The runner's sampling call: Instagram dedups and stratifies by year, the
\* other two take the uniform stride.
Sampled(platform, raw_snapshots, sample) ==
    IF platform = PLATFORM
    THEN evenly_sample_snapshots(deduplicate_snapshots(raw_snapshots), sample)
    ELSE evenly_sample(raw_snapshots, sample)
Found(platform, raw_snapshots) ==
    IF platform = PLATFORM THEN Len(deduplicate_snapshots(raw_snapshots))
    ELSE Len(raw_snapshots)

NoEffects == [fetches |-> 0, writes |-> 0]

\* The three functions above, tabulated over the inputs of the model.
SampledOf ==
    [platform \in Platforms |-> [raw_snapshots \in SpelledAnswers |->
        [sample \in 1..MaxSample |-> Sampled(platform, raw_snapshots, sample)]]]
FoundOf ==
    [platform \in Platforms |-> [raw_snapshots \in SpelledAnswers |->
        Found(platform, raw_snapshots)]]
ExtractedOf ==
    [platform \in Platforms |-> [html \in FetchOutcomes(platform) |->
        Extracted(platform, html)]]

\* No connector call on its own: the job model calls the connectors inside
\* its steps.
NoCall ==
    [op |-> "none", pc |-> "none", platform |-> "", snapshots |-> << >>, sample |-> 0,
     variant |-> 0, all_snapshots |-> << >>, seen_ts |-> {}, result |-> << >>,
     raised |-> FALSE,
     \* history of a list_snapshots call: the variants queried, the timestamps
     \* of the profile captures reported, the kind of the last answer, whether
     \* every answer so far was a failure, whether a timestamp came twice
     queried |-> {}, reported |-> {}, last |-> "none", allFailed |-> TRUE,
     repeated |-> FALSE]

Init ==
    /\ jobs = << >>
    /\ snaps = {}
    /\ cache = {}
    /\ run = [j \in JobIds |-> NoTask]
    /\ nextJob = 1
    /\ profile \in Platforms
    /\ index \in IndexAnswers
    /\ ack = {}
    /\ effects = [j \in JobIds |-> NoEffects]
    /\ cacheLog = {}
    /\ lastUpsert = {}
    /\ call = NoCall
\* ------------------------------------------------------------ job runner
\* _run_instagram_job / _run_twitter_job / _run_youtube_job: one body, the
\* platform selects the sampler, the extractor and the metric columns.
\* pc names the next statement of the task: start (first transaction), list
\* (index query, sampling, second transaction), then per snapshot check,
\* lookup, fetch, upsert, persist, and finish; except is the handler.

ExistsJob(js, j) == j \in DOMAIN js

\* UPDATE wayback_jobs SET <fields> WHERE job_id = j: no row, no effect.
UpdateJob(js, j, changes) ==
    IF ExistsJob(js, j)
    THEN [js EXCEPT ![j] = [f \in DOMAIN js[j] |->
                              IF f \in DOMAIN changes THEN changes[f] ELSE js[j][f]]]
    ELSE js

Goto(j, pc, changes) ==
    run' = [run EXCEPT ![j] = [f \in DOMAIN run[j] |->
                                 IF f = "pc" THEN pc
                                 ELSE IF f \in DOMAIN changes THEN changes[f]
                                 ELSE run[j][f]]]

\* The task j has performed this many more fetches and store writes.
Did(j, fetches, writes) ==
    effects' = [effects EXCEPT ![j] = [fetches |-> @.fetches + fetches,
                                       writes |-> @.writes + writes]]

\* jobs.py:85-88: the claim of the job writes running whatever the status is.
ClaimJob(js, j) == UpdateJob(js, j, [status |-> "running", started_at |-> Some("now")])

Start(j) ==
    /\ run[j].pc = "start"
    /\ IF ~ExistsJob(jobs, j)
       THEN /\ Goto(j, "done", << >>)
            /\ UNCHANGED << jobs, effects >>
       ELSE /\ jobs' = ClaimJob(jobs, j)
            /\ Did(j, 0, 1)
            /\ Goto(j, "list", [canonical_url |-> jobs[j].canonical_url,
                                sample |-> jobs[j].sample])
    /\ UNCHANGED << snaps, cache, nextJob, world, ack, cacheLog, lastUpsert >>

ListAndSample(j) ==
    /\ run[j].pc = "list"
    /\ \E raw_snapshots \in ListAnswers(index) :
          LET sampled == SampledOf[run[j].platform][raw_snapshots][run[j].sample]
              found == FoundOf[run[j].platform][raw_snapshots]
          IN /\ jobs' = UpdateJob(jobs, j, [total |-> Some(Len(sampled)),
                                            snapshots_found |-> Some(found),
                                            snapshots_sampled |-> Some(Len(sampled))])
             /\ Goto(j, IF sampled = << >> THEN "finish" ELSE "check",
                     [sampled |-> sampled, snapshots_found |-> found, i |-> 1])
    /\ Did(j, 0, IF ExistsJob(jobs, j) THEN 1 ELSE 0)
    /\ UNCHANGED << snaps, cache, nextJob, world, ack, cacheLog, lastUpsert >>

\* A variant of the re-read that never sees the cancel.
ObservesCanceled_never(js, j) == FALSE

\* jobs.py:115-122: r and r["status"] == "canceled".
ObservesCanceled(js, j) == ExistsJob(js, j) /\ js[j].status = "canceled"

Check(j) ==
    /\ run[j].pc = "check"
    /\ Goto(j, IF ObservesCanceled(jobs, j) THEN "stopped" ELSE "lookup", << >>)
    /\ UNCHANGED << tables, nextJob, world, history >>

CurrentSnap(j) == run[j].sampled[run[j].i]

\* The values a cache hit hands to the job row.
FromCache(platform, cached) ==
    [m |-> [f \in DOMAIN NoMetrics |->
              IF f \in MetricFields(platform) THEN Val(cached)[f] ELSE None],
     confidence |-> OrDefault(Val(cached).confidence),
     evidence |-> Val(cached).evidence]

\* A variant of the lookup that sends a hit through the cache upsert, writing
\* the cached values back.
Lookup_writes_back(j) ==
    /\ run[j].pc = "lookup"
    /\ LET cached == CacheLookup(cache, run[j].platform, run[j].canonical_url,
                                 CurrentSnap(j).timestamp)
       IN IF ~IsNone(cached)
          THEN LET v == FromCache(run[j].platform, cached)
               IN Goto(j, "upsert",
                       [snapshots_cached |-> run[j].snapshots_cached + 1,
                        it |-> [run[j].it EXCEPT !.cached = cached, !.source = "cache",
                                   !.m = v.m, !.confidence = v.confidence,
                                   !.evidence = v.evidence]])
          ELSE Goto(j, "fetch",
                    [snapshots_fetched |-> run[j].snapshots_fetched + 1,
                     it |-> [run[j].it EXCEPT !.cached = cached, !.source = "wayback"]])
    /\ UNCHANGED << tables, nextJob, world, history >>

Lookup(j) ==
    /\ run[j].pc = "lookup"
    /\ LET cached == CacheLookup(cache, run[j].platform, run[j].canonical_url,
                                 CurrentSnap(j).timestamp)
       IN IF has_metrics(run[j].platform, cached)
          THEN LET v == FromCache(run[j].platform, cached)
               IN Goto(j, "persist",
                       [snapshots_cached |-> run[j].snapshots_cached + 1,
                        it |-> [run[j].it EXCEPT !.cached = cached, !.source = "cache",
                                   !.m = v.m, !.confidence = v.confidence,
                                   !.evidence = v.evidence]])
          ELSE Goto(j, "fetch",
                    [snapshots_fetched |-> run[j].snapshots_fetched + 1,
                     it |-> [run[j].it EXCEPT !.cached = cached, !.source = "wayback"]])
    /\ UNCHANGED << tables, nextJob, world, history >>

\* A variant of the fetch step in which a failed fetch raises into the handler.
Fetch_failure_raises(j) ==
    /\ run[j].pc = "fetch"
    /\ \E html \in FetchOutcomes(run[j].platform) :
          LET x == ExtractedOf[run[j].platform][html]
          IN IF IsNone(html)
             THEN Goto(j, "except", [e |-> Some("fetch failed"), it |-> IdleLocals])
             ELSE Goto(j, "upsert",
                       [it |-> [run[j].it EXCEPT !.html = html, !.m = x.m,
                                   !.confidence = x.confidence, !.evidence = x.evidence,
                                   !.fetchedTs = Some(CurrentSnap(j).timestamp),
                                   !.requested = Some(_build_archived_url(
                                       CurrentSnap(j).timestamp, CurrentSnap(j).original))]])
    /\ Did(j, 1, 0)
    /\ UNCHANGED << tables, nextJob, world, ack, cacheLog, lastUpsert >>

\* jobs.py:157-171: fetch_snapshot_html, then the extractor on present HTML.
Fetch(j) ==
    /\ run[j].pc = "fetch"
    /\ \E html \in FetchOutcomes(run[j].platform) :
          LET x == ExtractedOf[run[j].platform][html]
          IN Goto(j, "upsert",
                  [it |-> [run[j].it EXCEPT !.html = html, !.m = x.m,
                              !.confidence = x.confidence, !.evidence = x.evidence,
                              !.fetchedTs = Some(CurrentSnap(j).timestamp),
                              !.requested = Some(_build_archived_url(
                                  CurrentSnap(j).timestamp, CurrentSnap(j).original))]])
    /\ Did(j, 1, 0)
    /\ UNCHANGED << tables, nextJob, world, ack, cacheLog, lastUpsert >>

\* The history of a committed batch of cache upserts: rows are the rows
\* written (one per key), fetched the keys the operation has fetched live.
Logged(rows, fetched) ==
    /\ cacheLog' = cacheLog \cup {[key |-> CacheKey(r), fetched |-> CacheKey(r) \in fetched]
                                  : r \in rows}
    /\ lastUpsert' = {l \in lastUpsert : \A r \in rows : CacheKey(r) # CacheKey(l)} \cup rows

RunnerCacheRow(j) ==
    CacheRow(run[j].platform, run[j].canonical_url, CurrentSnap(j).timestamp,
             CurrentSnap(j).original,
             _build_archived_url(CurrentSnap(j).timestamp, CurrentSnap(j).original),
             run[j].it.m, run[j].it.confidence, run[j].it.evidence)

\* The keys whose snapshot the task has fetched in the current iteration.
FetchedKeys(j) ==
    IF IsNone(run[j].it.fetchedTs) THEN {}
    ELSE {<< run[j].platform, run[j].canonical_url, Val(run[j].it.fetchedTs) >>}

Upsert(j) ==
    /\ run[j].pc = "upsert"
    /\ cache' = UpsertCache(cache, RunnerCacheRow(j))
    /\ Goto(j, "persist", [it |-> [run[j].it EXCEPT !.upserted = TRUE]])
    /\ Did(j, 0, 1)
    /\ Logged({RunnerCacheRow(j)}, FetchedKeys(j))
    /\ UNCHANGED << jobs, snaps, nextJob, world, ack >>

RunnerSnapRow(j) ==
    [job_id |-> j, timestamp |-> CurrentSnap(j).timestamp,
     archived_url |-> _build_archived_url(CurrentSnap(j).timestamp, CurrentSnap(j).original),
     followers |-> run[j].it.m.followers, following |-> run[j].it.m.following,
     posts |-> run[j].it.m.posts, subscribers |-> run[j].it.m.subscribers,
     confidence |-> run[j].it.confidence, evidence |-> run[j].it.evidence,
     source |-> run[j].it.source]

WithMetrics(platform, m) == \E f \in MetricFields(platform) : ~IsNone(m[f])

\* A variant of the persist step without the foreign key: the snapshot row of
\* a job whose row is gone is inserted all the same.
Persist_no_foreign_key(j) ==
    /\ run[j].pc = "persist"
    /\ snaps' = UpsertSnap(snaps, RunnerSnapRow(j))
    /\ jobs' = UpdateJob(jobs, j, [processed |-> Some(run[j].processed + 1)])
    /\ Goto(j, IF run[j].i = Len(run[j].sampled) THEN "finish" ELSE "check",
            [processed |-> run[j].processed + 1,
             snapshots_with_metrics |->
                 run[j].snapshots_with_metrics
                 + (IF WithMetrics(run[j].platform, run[j].it.m) THEN 1 ELSE 0),
             i |-> run[j].i + 1, it |-> IdleLocals])
    /\ Did(j, 0, 2)
    /\ UNCHANGED << cache, nextJob, world, ack, cacheLog, lastUpsert >>

\* A variant of the persist step that writes the snapshot row and leaves the
\* job's processed column alone.
Persist_row_only(j) ==
    /\ run[j].pc = "persist"
    /\ ExistsJob(jobs, j)
    /\ snaps' = UpsertSnap(snaps, RunnerSnapRow(j))
    /\ Goto(j, IF run[j].i = Len(run[j].sampled) THEN "finish" ELSE "check",
            [processed |-> run[j].processed + 1,
             snapshots_with_metrics |->
                 run[j].snapshots_with_metrics
                 + (IF WithMetrics(run[j].platform, run[j].it.m) THEN 1 ELSE 0),
             i |-> run[j].i + 1, it |-> IdleLocals])
    /\ Did(j, 0, 1)
    /\ UNCHANGED << jobs, cache, nextJob, world, ack, cacheLog, lastUpsert >>

\* jobs.py:205-239.  The snapshot row references wayback_jobs(job_id): with
\* the job row gone the INSERT raises and the handler runs.
Persist(j) ==
    /\ run[j].pc = "persist"
    /\ IF ~ExistsJob(jobs, j)
       THEN /\ Goto(j, "except", [e |-> Some("foreign key violation"), it |-> IdleLocals])
            /\ UNCHANGED << jobs, snaps, effects >>
       ELSE /\ snaps' = UpsertSnap(snaps, RunnerSnapRow(j))
            /\ jobs' = UpdateJob(jobs, j, [processed |-> Some(run[j].processed + 1)])
            /\ Goto(j, IF run[j].i = Len(run[j].sampled) THEN "finish" ELSE "check",
                    [processed |-> run[j].processed + 1,
                     snapshots_with_metrics |->
                         run[j].snapshots_with_metrics
                         + (IF WithMetrics(run[j].platform, run[j].it.m) THEN 1 ELSE 0),
                     i |-> run[j].i + 1, it |-> IdleLocals])
            /\ Did(j, 0, 2)
    /\ UNCHANGED << cache, nextJob, world, ack, cacheLog, lastUpsert >>

\* A variant of the summary that reports the cache as soon as one snapshot
\* came from it.
Summary_any_cached(snapshots_sampled, snapshots_found, snapshots_with_metrics, snapshots_cached) ==
    IF snapshots_sampled = 0
    THEN Some("No Wayback snapshots found for selected date range.")
    ELSE IF snapshots_with_metrics = 0
    THEN Some("Snapshots found but no extractable metrics.")
    ELSE IF snapshots_cached > 0
    THEN Some("All snapshots served from cache.")
    ELSE None

\* jobs.py:241-252.
Summary(snapshots_sampled, snapshots_found, snapshots_with_metrics, snapshots_cached) ==
    IF snapshots_sampled = 0
    THEN IF snapshots_found = 0
         THEN Some("No Wayback snapshots found for selected date range.")
         ELSE Some("No snapshots sampled (unexpected).")
    ELSE IF snapshots_with_metrics = 0
    THEN Some("Snapshots found but no extractable metrics.")
    ELSE IF snapshots_cached = snapshots_sampled
    THEN Some("All snapshots served from cache.")
    ELSE None

\* jobs.py:254-271: the final UPDATE has no condition on the status.
\* A variant of the final UPDATE that counts every processed snapshot as
\* fetched.
CompleteJob_all_fetched(js, j, r) ==
    UpdateJob(js, j,
        [status |-> "completed", finished_at |-> Some("now"),
         snapshots_with_metrics |-> Some(r.snapshots_with_metrics),
         snapshots_cached |-> Some(r.snapshots_cached),
         snapshots_fetched |-> Some(r.processed),
         summary |-> Summary(Len(r.sampled), r.snapshots_found,
                             r.snapshots_with_metrics, r.snapshots_cached)])

CompleteJob(js, j, r) ==
    UpdateJob(js, j,
        [status |-> "completed", finished_at |-> Some("now"),
         snapshots_with_metrics |-> Some(r.snapshots_with_metrics),
         snapshots_cached |-> Some(r.snapshots_cached),
         snapshots_fetched |-> Some(r.snapshots_fetched),
         summary |-> Summary(Len(r.sampled), r.snapshots_found,
                             r.snapshots_with_metrics, r.snapshots_cached)])

Finish(j) ==
    /\ run[j].pc = "finish"
    /\ jobs' = CompleteJob(jobs, j, run[j])
    /\ Goto(j, "done", << >>)
    /\ Did(j, 0, IF ExistsJob(jobs, j) THEN 1 ELSE 0)
    /\ UNCHANGED << snaps, cache, nextJob, world, ack, cacheLog, lastUpsert >>

\* A transaction of the try body raises (store unreachable): control moves to
\* the handler with nothing written.  A raising transaction raises before its
\* statements took effect; for the status re-read, before the status was read.
InTry == {"start", "list", "check", "lookup", "upsert", "persist", "finish"}
StoreError(j) ==
    /\ run[j].pc \in InTry
    /\ Goto(j, "except", [e |-> Some("store error"), it |-> IdleLocals])
    /\ UNCHANGED << tables, nextJob, world, history >>

\* jobs.py:273-278: the handler's UPDATE has no condition on the status.
FailJob(js, j, e) ==
    UpdateJob(js, j, [status |-> "failed", error |-> e, finished_at |-> Some("now")])

Handler(j) ==
    /\ run[j].pc = "except"
    /\ jobs' = FailJob(jobs, j, run[j].e)
    /\ Goto(j, "done", << >>)
    /\ Did(j, 0, IF ExistsJob(jobs, j) THEN 1 ELSE 0)
    /\ UNCHANGED << snaps, cache, nextJob, world, ack, cacheLog, lastUpsert >>

\* The handler's own transaction raises: the exception leaves the task.
HandlerError(j) ==
    /\ run[j].pc = "except"
    /\ Goto(j, "done", << >>)
    /\ UNCHANGED << tables, nextJob, world, history >>

\* ------------------------------------------------------------------- API
Clamp(sample) == Min2(Max2(sample, 1), 100)

\* create_*_job followed by background_tasks.add_task (main.py:622-667).
CreateJob(platform, sample) ==
    /\ nextJob \in JobIds
    /\ platform = profile
    /\ jobs' = jobs @@ (nextJob :> NewJobRow(platform, Clamp(sample)))
    /\ run' = [run EXCEPT ![nextJob] = [NoTask EXCEPT !.pc = "start", !.platform = platform]]
    /\ nextJob' = nextJob + 1
    /\ UNCHANGED << snaps, cache, world, history >>

\* A variant of cancel_job without the condition on the status.
cancel_job_any_status(js, j) ==
    [jobs |-> UpdateJob(js, j, [status |-> "canceled"]), returns |-> j \in DOMAIN js]

\* cancel_job: UPDATE ... WHERE job_id = %s AND status IN ('queued', 'running');
\* returns rowcount > 0.
cancel_job(js, j) ==
    IF ExistsJob(js, j) /\ js[j].status \in {"queued", "running"}
    THEN [jobs |-> UpdateJob(js, j, [status |-> "canceled"]), returns |-> TRUE]
    ELSE [jobs |-> js, returns |-> FALSE]

CancelJob(j) ==
    /\ jobs' = cancel_job(jobs, j).jobs
    /\ ack' = IF cancel_job(jobs, j).returns THEN ack \cup {j} ELSE ack
    /\ UNCHANGED << snaps, cache, run, nextJob, world, effects, cacheLog, lastUpsert >>

\* A variant of delete_job whose first DELETE has no WHERE clause.
delete_job_all_rows(js, t, j) ==
    [snaps |-> {}, jobs |-> [k \in DOMAIN js \ {j} |-> js[k]], returns |-> j \in DOMAIN js]

\* delete_job: the job's snapshot rows, then the job row; rowcount of the latter.
delete_job(js, t, j) ==
    [snaps |-> {r \in t : r.job_id # j},
     jobs |-> [k \in DOMAIN js \ {j} |-> js[k]],
     returns |-> ExistsJob(js, j)]

DeleteJob(j) ==
    /\ jobs' = delete_job(jobs, snaps, j).jobs
    /\ snaps' = delete_job(jobs, snaps, j).snaps
    /\ call' = [op |-> "delete_job", pc |-> "returned", job_id |-> j,
                returns |-> delete_job(jobs, snaps, j).returns]
    /\ UNCHANGED << cache, run, nextJob, profile, index, history >>

\* One entry of get_*_archival_metrics' results: Instagram as in the runner;
\* Twitter and YouTube keep confidence 0.0 unless a value was extracted.
LiveCountEntry(field, extracted) ==
    IF IsNone(extracted.value)
    THEN [m |-> NoMetrics, confidence |-> 0, evidence |-> None]
    ELSE [m |-> [NoMetrics EXCEPT ![field] = extracted.value],
          confidence |-> extracted.confidence, evidence |-> extracted.evidence]
LiveEntry(platform, html) ==
    IF platform = PLATFORM \/ IsNone(html) THEN Extracted(platform, html)
    ELSE IF platform = PLATFORM_TWITTER
    THEN LiveCountEntry("followers", extract_followers(Val(html)))
    ELSE LiveCountEntry("subscribers", extract_subscribers(Val(html)))

LiveEntryOf ==
    [platform \in Platforms |-> [html \in FetchOutcomes(platform) |->
        LiveEntry(platform, html)]]

\* _upsert_*_cache: one row per result, confidence `or 0.2`.
EntryRow(platform, s, entry) ==
    CacheRow(platform, CanonicalUrl(platform), s.timestamp, s.original,
             _build_archived_url(s.timestamp, s.original), entry.m,
             OrDefault(entry.confidence), entry.evidence)
LiveCacheRow(platform, s, html) == EntryRow(platform, s, LiveEntryOf[platform][html])

RECURSIVE UpsertAll(_, _)
UpsertAll(c, rows) ==
    IF rows = << >> THEN c ELSE UpsertAll(UpsertCache(c, Head(rows)), Tail(rows))

\* cache_first_instagram / cache_first_twitter / cache_first_youtube: cache rows
\* present and no force_live answers from the cache; otherwise one live batch
\* (list, sample, fetch each) and one transaction that upserts every result.
\* (A failure of that transaction is swallowed and leaves the store as it was:
\* the request then changes nothing, like the request answered from the cache.)
CacheFirst(force_live, limit) ==
    LET canonical_url == CanonicalUrl(profile)
        sample == Clamp(limit)
        cache_rows == {r \in cache : r.platform = profile /\ r.canonical_url = canonical_url}
    IN /\ IF cache_rows # {} /\ ~force_live
          THEN UNCHANGED << cache, cacheLog, lastUpsert >>
          ELSE \E raw_snapshots \in ListAnswers(index) :
                 LET sampled == SampledOf[profile][raw_snapshots][sample]
                 IN \E htmls \in [1..Len(sampled) -> FetchOutcomes(profile)] :
                      LET results == [k \in 1..Len(sampled) |->
                                        LiveCacheRow(profile, sampled[k], htmls[k])]
                          fetched == {<< profile, canonical_url, sampled[k].timestamp >>
                                      : k \in DOMAIN htmls}
                      IN IF results = << >>
                         THEN UNCHANGED << cache, cacheLog, lastUpsert >>
                         ELSE /\ cache' = UpsertAll(cache, results)
                              /\ Logged({results[k] : k \in 1..Len(results)}, fetched)
       /\ UNCHANGED << jobs, snaps, run, nextJob, world, ack, effects >>

Runner(j) ==
    \/ Start(j) \/ ListAndSample(j) \/ Check(j) \/ Lookup(j) \/ Fetch(j)
    \/ Upsert(j) \/ Persist(j) \/ Finish(j) \/ StoreError(j) \/ Handler(j)
    \/ HandlerError(j)

\* One job, canceled at any moment, a store that can fail under any of its
\* transactions, and cache-first requests for the same profile.
Next ==
    \/ \E sample \in 1..MaxSample : nextJob = 1 /\ CreateJob(profile, sample)
    \/ \E j \in JobIds : Runner(j)
    \/ \E j \in JobIds : CancelJob(j)
    \/ \E force_live \in BOOLEAN, limit \in 1..MaxSample : CacheFirst(force_live, limit)

Spec == Init /\ [][Next]_vars

\* Two jobs for the same profile racing on the cache, with the store
\* reachable and nobody canceling.
Racer(j) ==
    \/ Start(j) \/ ListAndSample(j) \/ Check(j) \/ Lookup(j) \/ Fetch(j)
    \/ Upsert(j) \/ Persist(j) \/ Finish(j)

NextPair ==
    \/ \E sample \in 1..MaxSample : CreateJob(profile, sample)
    \/ \E j \in JobIds : Racer(j)

SpecPair == Init /\ [][NextPair]_vars

\* One job on its own, canceled at any moment, under a store that can fail
\* under any of its transactions.  Every call the task makes returns or
\* raises (the network calls carry timeouts), so a task that can take a step
\* eventually takes one.
NextSolo ==
    \/ \E sample \in 1..MaxSample : nextJob = 1 /\ CreateJob(profile, sample)
    \/ \E j \in JobIds : Runner(j)
    \/ \E j \in JobIds : CancelJob(j)

SpecSolo == Init /\ [][NextSolo]_vars /\ \A j \in JobIds : WF_vars(Runner(j))

\* Two jobs of sample 1 for the same profile with the store reachable, each
\* of which can be deleted at any moment, also while its task runs (the task
\* then meets the missing row and ends in its handler).
NextDelete ==
    \/ CreateJob(profile, 1)
    \/ \E j \in JobIds : Racer(j) \/ Handler(j)
    \/ \E j \in JobIds : DeleteJob(j)

SpecDelete == Init /\ [][NextDelete]_vars

\* One job and cache-first requests for a profile whose captures the index
\* reports under the modern or the legacy spelling, with the store reachable.
InitArchive ==
    /\ jobs = << >>
    /\ snaps = {}
    /\ cache = {}
    /\ run = [j \in JobIds |-> NoTask]
    /\ nextJob = 1
    /\ profile \in Platforms
    /\ index \in SpelledAnswers
    /\ ack = {}
    /\ effects = [j \in JobIds |-> NoEffects]
    /\ cacheLog = {}
    /\ lastUpsert = {}
    /\ call = NoCall

NextArchive ==
    \/ \E sample \in 1..MaxSample : nextJob = 1 /\ CreateJob(profile, sample)
    \/ \E j \in JobIds : Racer(j)
    \/ \E force_live \in BOOLEAN, limit \in 1..MaxSample : CacheFirst(force_live, limit)

SpecArchive == InitArchive /\ [][NextArchive]_vars

\* ------------------------------------------------- connector calls alone
\* The samplers and the deduplicator called on their own, on the lists the
\* callers can hand them: list_snapshots of the Instagram connector returns
\* distinct timestamps in the order of its URL variants (any order), those of
\* the Twitter and YouTube connectors return them ascending; the deduplicator
\* is given the same capture under several spellings of the URL.
CallTimestamps == {Ts(n) : n \in 1..MaxInput}
ModernNoSlash == Url("https", TRUE, FALSE, FALSE, "h")

\* The lists without repetition over S.
Arrangements(S) ==
    {xs \in UNION {[1..n -> S] : n \in 0..Cardinality(S)} :
        \A a, b \in DOMAIN xs : a # b => xs[a] # xs[b]}
\* The lists of length at most n over S.
ListsUpTo(S, n) == UNION {[1..k -> S] : k \in 0..n}

AnyOrderInputs ==
    {[k \in DOMAIN ts |-> Snapshot(ts[k], ModernUrl)] : ts \in Arrangements(CallTimestamps)}
AscendingInputs == {AscendingSnaps(S) : S \in SUBSET CallTimestamps}
DedupInputs ==
    ListsUpTo({Snapshot(ts, u) : ts \in {Ts(1), Ts(2)},
                                 u \in {ModernUrl, LegacyUrl, ModernNoSlash}}, MaxInput)

Called(op, snapshots, sample) ==
    [NoCall EXCEPT !.op = op, !.pc = "called", !.snapshots = snapshots, !.sample = sample]
Returned(result) == [call EXCEPT !.pc = "returned", !.result = result]

InitConnector ==
    /\ jobs = << >>
    /\ snaps = {}
    /\ cache = {}
    /\ run = [j \in JobIds |-> NoTask]
    /\ nextJob = 1
    /\ profile = PLATFORM
    /\ index = << >>
    /\ ack = {}
    /\ effects = [j \in JobIds |-> NoEffects]
    /\ cacheLog = {}
    /\ lastUpsert = {}
    /\ call \in {Called("evenly_sample_snapshots", xs, k) :
                    xs \in AnyOrderInputs, k \in 1..MaxInput}
             \cup {Called("evenly_sample", xs, k) :
                    xs \in AscendingInputs, k \in 1..MaxInput}
             \cup {Called("deduplicate_snapshots", xs, 0) : xs \in DedupInputs}

ReturnStratified ==
    /\ call.op = "evenly_sample_snapshots" /\ call.pc = "called"
    /\ call' = Returned(evenly_sample_snapshots(call.snapshots, call.sample))
    /\ UNCHANGED << tables, run, nextJob, profile, index, history >>

ReturnUniform ==
    /\ call.op = "evenly_sample" /\ call.pc = "called"
    /\ call' = Returned(evenly_sample(call.snapshots, call.sample))
    /\ UNCHANGED << tables, run, nextJob, profile, index, history >>

ReturnDeduplicated ==
    /\ call.op = "deduplicate_snapshots" /\ call.pc = "called"
    /\ call' = Returned(deduplicate_snapshots(call.snapshots))
    /\ UNCHANGED << tables, run, nextJob, profile, index, history >>

NextConnector == ReturnStratified \/ ReturnUniform \/ ReturnDeduplicated

SpecConnector == InitConnector /\ [][NextConnector]_vars

\* -------------------------------------------------- list_snapshots alone
\* The three CDX clients, one index query per step.  A variant is given by its
\* match type; the index answers a query with rows, with a failure (network
\* error, non-2xx status, a body that is not JSON) or with a JSON body of the
\* wrong shape (a row without its columns).
SubPageUrl == Url("https", TRUE, FALSE, TRUE, "h/photos")

_is_profile_url(original, username) == Lower(original.path) = Lower(username)

\* urls_to_try of each client for the canonical URL of the handle "h".
urls_to_try(platform) ==
    CASE platform = PLATFORM -> << "prefix", "prefix", "exact", "exact" >>
      [] platform = PLATFORM_TWITTER ->
           << "prefix", "prefix", "prefix", "exact", "prefix", "prefix",
              "prefix", "prefix", "prefix", "exact", "prefix" >>
      [] OTHER ->
           << "exact", "prefix", "prefix", "prefix", "prefix", "prefix", "prefix",
              "prefix", "prefix", "exact", "prefix", "prefix" >>
\* The Instagram fallback forms, without the one equal to the canonical URL.
fallback_urls == << "exact", "exact", "exact" >>

\* A prefix query can match sub-pages of the profile, an exact query cannot.
CdxRows(match_type) ==
    ListsUpTo({Snapshot(ts, u) : ts \in JobTimestamps,
                                 u \in IF match_type = "prefix"
                                       THEN {ModernUrl, SubPageUrl} ELSE {ModernUrl}}, 2)
CdxAnswers(match_type) ==
    {[kind |-> "failed", rows |-> << >>], [kind |-> "malformed", rows |-> << >>]}
    \cup {[kind |-> "rows", rows |-> rows] : rows \in CdxRows(match_type)}

\* _fetch_cdx: the Instagram client lets every failure out to its caller; the
\* Twitter and YouTube clients catch the request and resp.json() only, the
\* rows are read outside their try.
_fetch_cdx(platform, answer) ==
    [raises |-> answer.kind = "malformed" \/ (platform = PLATFORM /\ answer.kind = "failed"),
     snaps |-> IF answer.kind = "rows" THEN answer.rows ELSE << >>]

ProfileOnly(found) == SelectSeq(found, LAMBDA s : _is_profile_url(s.original, "h"))

\* The filter on the rows of a prefix query.
Filtered(platform, match_type, found) ==
    IF match_type # "prefix" \/ platform = PLATFORM_YOUTUBE THEN found
    ELSE IF platform = PLATFORM_TWITTER THEN ProfileOnly(found)
    ELSE IF ProfileOnly(found) # << >> THEN ProfileOnly(found) ELSE found

\* A variant of the merge that appends every row.
MergeNew_all(all_snapshots, found) == all_snapshots \o found

\* for s in snaps: if s["timestamp"] not in seen_ts: add and append.
RECURSIVE MergeNew(_, _)
MergeNew(all_snapshots, found) ==
    IF found = << >> THEN all_snapshots
    ELSE IF \E k \in DOMAIN all_snapshots : all_snapshots[k].timestamp = Head(found).timestamp
    THEN MergeNew(all_snapshots, Tail(found))
    ELSE MergeNew(Append(all_snapshots, Head(found)), Tail(found))

TimestampsOf(xs) == {xs[k].timestamp : k \in DOMAIN xs}

\* The history of one more answer.
Noted(c, id, answer, found) ==
    [c EXCEPT !.queried = @ \cup {id},
              !.reported = @ \cup TimestampsOf(ProfileOnly(answer.rows)),
              !.last = answer.kind,
              !.allFailed = @ /\ answer.kind # "rows",
              !.repeated = @ \/ Len(MergeNew(c.all_snapshots, found))
                                 < Len(c.all_snapshots) + Len(found)]

\* An exception leaves list_snapshots.
Raised(c) == [c EXCEPT !.pc = "returned", !.raised = TRUE, !.result = << >>]

\* The end of the main loop's turn: next variant, fallback or return.
Turned(c, all_snapshots, stop) ==
    [c EXCEPT !.all_snapshots = all_snapshots,
              !.seen_ts = TimestampsOf(all_snapshots),
              !.variant = IF stop THEN 1 ELSE @ + 1,
              !.pc = IF ~stop THEN "query"
                     ELSE IF c.platform = PLATFORM /\ all_snapshots = << >> THEN "fallback"
                     ELSE "returned",
              !.result = IF ~stop THEN << >>
                         ELSE IF c.platform = PLATFORM THEN all_snapshots
                         ELSE SortByTs(all_snapshots)]

\* One turn of `for u, match_type in urls_to_try`.
Queried(c, answer, found) ==
    IF _fetch_cdx(c.platform, answer).raises /\ c.platform # PLATFORM
    THEN Raised(Noted(c, c.variant, answer, << >>))
    ELSE Turned(Noted(c, c.variant, answer, found),
                MergeNew(c.all_snapshots, found),
                \/ c.variant = Len(urls_to_try(c.platform))
                \/ (c.platform = PLATFORM_YOUTUBE /\ MergeNew(c.all_snapshots, found) # << >>))

Query ==
    /\ call.op = "list_snapshots" /\ call.pc = "query"
    /\ \E answer \in CdxAnswers(urls_to_try(call.platform)[call.variant]) :
          call' = Queried(call, answer,
                          IF _fetch_cdx(call.platform, answer).raises THEN << >>
                          ELSE Filtered(call.platform, urls_to_try(call.platform)[call.variant],
                                        _fetch_cdx(call.platform, answer).snaps))
    /\ UNCHANGED << tables, run, nextJob, profile, index, history >>

\* One turn of the Instagram fallback loop: the first form with rows ends it.
FellBack(c, all_snapshots, stop) ==
    [c EXCEPT !.all_snapshots = all_snapshots,
              !.seen_ts = TimestampsOf(all_snapshots),
              !.variant = @ + 1,
              !.pc = IF stop THEN "returned" ELSE "fallback",
              !.result = IF stop THEN all_snapshots ELSE << >>]

QueryFallback ==
    /\ call.op = "list_snapshots" /\ call.pc = "fallback"
    /\ \E answer \in CdxAnswers(fallback_urls[call.variant]) :
          call' = FellBack(Noted(call, Len(urls_to_try(call.platform)) + call.variant,
                                 answer, _fetch_cdx(call.platform, answer).snaps),
                           MergeNew(call.all_snapshots, _fetch_cdx(call.platform, answer).snaps),
                           \/ call.variant = Len(fallback_urls)
                           \/ _fetch_cdx(call.platform, answer).snaps # << >>)
    /\ UNCHANGED << tables, run, nextJob, profile, index, history >>

InitList ==
    /\ jobs = << >>
    /\ snaps = {}
    /\ cache = {}
    /\ run = [j \in JobIds |-> NoTask]
    /\ nextJob = 1
    /\ profile \in Platforms
    /\ index = << >>
    /\ ack = {}
    /\ effects = [j \in JobIds |-> NoEffects]
    /\ cacheLog = {}
    /\ lastUpsert = {}
    /\ call = [NoCall EXCEPT !.op = "list_snapshots", !.pc = "query",
                             !.platform = profile, !.variant = 1]

NextList == Query \/ QueryFallback

SpecList == InitList /\ [][NextList]_vars

\* The Instagram pipeline of a job (list_snapshots, then
\* deduplicate_snapshots) over an index that reports captures under the
\* modern and the legacy spelling of the profile URL.
SpelledRows ==
    ListsUpTo({Snapshot(ts, u) : ts \in JobTimestamps, u \in {ModernUrl, LegacyUrl}}, 2)
SpelledCdxAnswers ==
    {[kind |-> "failed", rows |-> << >>]} \cup {[kind |-> "rows", rows |-> rows] : rows \in SpelledRows}

\* The history of the spellings the index has reported so far.
Spelled(c, answer) ==
    [c EXCEPT !.spelled = @ \cup {answer.rows[k] : k \in DOMAIN answer.rows}]

QuerySpelled ==
    /\ call.op = "list_snapshots" /\ call.pc = "query"
    /\ \E answer \in SpelledCdxAnswers :
          call' = Spelled(Queried(call, answer,
                                  IF _fetch_cdx(call.platform, answer).raises THEN << >>
                                  ELSE Filtered(call.platform,
                                                urls_to_try(call.platform)[call.variant],
                                                _fetch_cdx(call.platform, answer).snaps)),
                          answer)
    /\ UNCHANGED << tables, run, nextJob, profile, index, history >>

QueryFallbackSpelled ==
    /\ call.op = "list_snapshots" /\ call.pc = "fallback"
    /\ \E answer \in SpelledCdxAnswers :
          call' = Spelled(FellBack(Noted(call, Len(urls_to_try(call.platform)) + call.variant,
                                         answer, _fetch_cdx(call.platform, answer).snaps),
                                   MergeNew(call.all_snapshots,
                                            _fetch_cdx(call.platform, answer).snaps),
                                   \/ call.variant = Len(fallback_urls)
                                   \/ _fetch_cdx(call.platform, answer).snaps # << >>),
                          answer)
    /\ UNCHANGED << tables, run, nextJob, profile, index, history >>

\* jobs.py:98: deduped = deduplicate_snapshots(raw_snapshots).
Deduplicate ==
    /\ call.op = "list_snapshots" /\ call.pc = "returned"
    /\ call' = [call EXCEPT !.pc = "deduplicated",
                            !.deduped = deduplicate_snapshots(call.result)]
    /\ UNCHANGED << tables, run, nextJob, profile, index, history >>

InitSpelled ==
    /\ jobs = << >>
    /\ snaps = {}
    /\ cache = {}
    /\ run = [j \in JobIds |-> NoTask]
    /\ nextJob = 1
    /\ profile = PLATFORM
    /\ index = << >>
    /\ ack = {}
    /\ effects = [j \in JobIds |-> NoEffects]
    /\ cacheLog = {}
    /\ lastUpsert = {}
    /\ call = [op |-> "list_snapshots", pc |-> "query", platform |-> profile, variant |-> 1,
               spelled |-> {}, deduped |-> << >>] @@ NoCall

NextSpelled == QuerySpelled \/ QueryFallbackSpelled \/ Deduplicate

SpecSpelled == InitSpelled /\ [][NextSpelled]_vars

\* ------------------------------------------------------ extractors alone
\* The three extractors on documents in which any combination of the
\* strategies' patterns matches: meta tags with three, two or one count, a
\* context snippet, _sharedData with and without the optional counts and with
\* an implausible followed_by, edge_followed_by, and the direct scan.
OgOptions ==
    {None, Some(Counts(Some(100), Some(5), Some(3))), Some(Counts(None, Some(5), Some(3))),
     Some(Counts(Some(100), None, None))}
DescOptions == {None, Some(Counts(Some(200), Some(6), Some(4)))}
CtxOptions == {None, Some(Counts(Some(300), Some(7), None))}
SharedOptions ==
    {None, Some(Counts(Some(406462), Some(14), Some(164))),
     Some(Counts(Some(406462), None, None)), Some(Counts(Some(0), Some(14), Some(164)))}
EdgeOptions == {None, Some(500), Some(0)}
DirectOptions ==
    {NoCounts, Counts(Some(900), None, None), Counts(Some(900), Some(9), None),
     Counts(None, None, Some(2))}
IgDocuments ==
    {IgHtml(og, desc, ctx, shared, edge, direct) :
        og \in OgOptions, desc \in DescOptions, ctx \in CtxOptions,
        shared \in SharedOptions, edge \in EdgeOptions, direct \in DirectOptions}
MatchOptions == {<< >>, << 850000 >>, << 0 >>, << 0, 1200000 >>}
CountDocuments ==
    {CountHtml(meta, text, rev) : meta \in MatchOptions, text \in MatchOptions,
                                  rev \in MatchOptions}

Extracting(op, html) == [op |-> op, pc |-> "called", html |-> html, metrics |-> << >>]

ExtractInstagram ==
    /\ call.op = "extract_instagram_metrics" /\ call.pc = "called"
    /\ call' = [call EXCEPT !.pc = "returned",
                            !.metrics = extract_instagram_metrics(call.html)]
    /\ UNCHANGED << tables, run, nextJob, profile, index, history >>

ExtractFollowers ==
    /\ call.op = "extract_followers" /\ call.pc = "called"
    /\ call' = [call EXCEPT !.pc = "returned",
                            !.metrics = [followers |-> extract_followers(call.html)]]
    /\ UNCHANGED << tables, run, nextJob, profile, index, history >>

ExtractSubscribers ==
    /\ call.op = "extract_subscribers" /\ call.pc = "called"
    /\ call' = [call EXCEPT !.pc = "returned",
                            !.metrics = [subscribers |-> extract_subscribers(call.html)]]
    /\ UNCHANGED << tables, run, nextJob, profile, index, history >>

InitExtract ==
    /\ jobs = << >>
    /\ snaps = {}
    /\ cache = {}
    /\ run = [j \in JobIds |-> NoTask]
    /\ nextJob = 1
    /\ profile = PLATFORM
    /\ index = << >>
    /\ ack = {}
    /\ effects = [j \in JobIds |-> NoEffects]
    /\ cacheLog = {}
    /\ lastUpsert = {}
    /\ call \in {Extracting("extract_instagram_metrics", html) : html \in IgDocuments}
             \cup {Extracting("extract_followers", html) : html \in CountDocuments}
             \cup {Extracting("extract_subscribers", html) : html \in CountDocuments}

NextExtract == ExtractInstagram \/ ExtractFollowers \/ ExtractSubscribers

SpecExtract == InitExtract /\ [][NextExtract]_vars

\* ----------------------------------------------------- reading a job alone
\* get_job on the contents the tables can have for one profile: per capture
\* time a cache entry (never deleted, so every job row has one) with or
\* without a metric, and the job's row, absent, fetched with or without a
\* metric, or copied from the cache; a row of another job and a cache entry
\* of another profile may exist next to them.
ReadValues == {None, Some(850000), Some(900000)}
MainField(platform) == IF platform = PLATFORM_YOUTUBE THEN "subscribers" ELSE "followers"
ReadMetrics(platform, v) == [NoMetrics EXCEPT ![MainField(platform)] = v]
ReadConfidence(v) == IF IsNone(v) THEN 0 ELSE 75

ReadJobRow(j, platform, ts, v, source) ==
    [job_id |-> j, timestamp |-> ts, archived_url |-> _build_archived_url(ts, ModernUrl),
     followers |-> ReadMetrics(platform, v).followers,
     following |-> None, posts |-> None,
     subscribers |-> ReadMetrics(platform, v).subscribers,
     confidence |-> ReadConfidence(v), evidence |-> None, source |-> source]
ReadCacheRow(platform, canonical_url, ts, v) ==
    CacheRow(platform, canonical_url, ts, ModernUrl, _build_archived_url(ts, ModernUrl),
             ReadMetrics(platform, v), OrDefault(ReadConfidence(v)), None)

\* What the tables hold for one capture time: the cache entry's value (if
\* there is an entry) and the job's row (if there is one).
ReadPairs ==
    {[entry |-> None, row |-> None]}
    \cup {[entry |-> Some(v), row |-> r] :
             v \in ReadValues,
             r \in {None, Some([v |-> None, source |-> "wayback"]),
                    Some([v |-> Some(850000), source |-> "wayback"]),
                    Some([v |-> Some(850000), source |-> "cache"])}}
OtherPlatform(platform) == IF platform = PLATFORM THEN PLATFORM_TWITTER ELSE PLATFORM

ReadSnaps(platform, held, other_job) ==
    {ReadJobRow(1, platform, ts, Val(held[ts].row).v, Val(held[ts].row).source) :
        ts \in {t \in JobTimestamps : ~IsNone(held[t].row)}}
    \cup (IF other_job THEN {ReadJobRow(2, platform, Ts(1), Some(900000), "wayback")} ELSE {})
ReadCache(platform, held, other_profile) ==
    {ReadCacheRow(platform, CanonicalUrl(platform), ts, Val(held[ts].entry)) :
        ts \in {t \in JobTimestamps : ~IsNone(held[t].entry)}}
    \cup (IF other_profile
          THEN {ReadCacheRow(OtherPlatform(platform), CanonicalUrl(OtherPlatform(platform)),
                             Ts(1), Some(900000))}
          ELSE {})
ReadJob(platform, rows) ==
    [NewJobRow(platform, MaxSample) EXCEPT
        !.status = "completed", !.started_at = Some("now"), !.finished_at = Some("now"),
        !.total = Some(rows), !.processed = Some(rows),
        !.snapshots_found = Some(rows), !.snapshots_sampled = Some(rows)]

\* _row_to_result: the columns of a result; the source of a cache row is "cache".
_row_to_result(r, source) ==
    [timestamp |-> r.timestamp, archived_url |-> r.archived_url,
     followers |-> r.followers, following |-> r.following, posts |-> r.posts,
     subscribers |-> r.subscribers, confidence |-> r.confidence,
     evidence |-> r.evidence, source |-> source]

\* _has_metrics of get_job: the platform's metric columns.
_has_metrics(platform, x) == \E f \in MetricFields(platform) : ~IsNone(x[f])

\* A variant of the merge that never replaces the job's row.
PrefersCache_never(platform, seen_row, cache_row) == FALSE

\* _has_metrics(cache_row) and not _has_metrics(seen[ts]).
PrefersCache(platform, seen_row, cache_row) ==
    _has_metrics(platform, cache_row) /\ ~_has_metrics(platform, seen_row)

\* seen after both loops, as the set of its values: the job's rows not
\* replaced, and the cache rows that are new or preferred.
Seen(platform, results, cache_rows) ==
    {r \in results :
        \A c \in cache_rows : c.timestamp = r.timestamp => ~PrefersCache(platform, r, c)}
    \cup {c \in cache_rows :
            \A r \in results : r.timestamp = c.timestamp => PrefersCache(platform, r, c)}

\* sorted(..., key=timestamp, reverse=True) of rows with distinct timestamps.
RECURSIVE SortedDesc(_)
SortedDesc(S) ==
    IF S = {} THEN << >>
    ELSE LET top == CHOOSE r \in S : \A q \in S : q.timestamp <= r.timestamp
         IN << top >> \o SortedDesc(S \ {top})

get_job(js, t, c, j) ==
    IF ~ExistsJob(js, j) THEN None
    ELSE Some([status |-> js[j].status,
               all_results |->
                   SortedDesc(Seen(js[j].platform,
                                   {_row_to_result(r, r.source) : r \in {q \in t : q.job_id = j}},
                                   {_row_to_result(r, "cache") :
                                       r \in {q \in c : /\ q.platform = js[j].platform
                                                        /\ q.canonical_url = js[j].canonical_url}}))])

GetJob(j) ==
    /\ call.op = "none"
    /\ call' = [op |-> "get_job", pc |-> "returned", job_id |-> j,
                returns |-> get_job(jobs, snaps, cache, j)]
    /\ UNCHANGED << tables, run, nextJob, profile, index, history >>

InitRead ==
    /\ profile \in Platforms
    /\ \E held \in [JobTimestamps -> ReadPairs], other_job \in BOOLEAN, other_profile \in BOOLEAN :
          /\ snaps = ReadSnaps(profile, held, other_job)
          /\ cache = ReadCache(profile, held, other_profile)
          /\ jobs = IF other_job
                    THEN << ReadJob(profile, Cardinality({r \in snaps : r.job_id = 1})),
                            ReadJob(profile, 1) >>
                    ELSE << ReadJob(profile, Cardinality({r \in snaps : r.job_id = 1})) >>
    /\ run = [j \in JobIds |-> [NoTask EXCEPT !.pc = "done", !.platform = profile]]
    /\ nextJob = 3
    /\ index = << >>
    /\ ack = {}
    /\ effects = [j \in JobIds |-> NoEffects]
    /\ cacheLog = {}
    /\ lastUpsert = {}
    /\ call = NoCall

NextRead == \E j \in JobIds : GetJob(j)

SpecRead == InitRead /\ [][NextRead]_vars

\* ------------------------------------------------- one HTTP call alone
\* One index query (_fetch_cdx inside a turn of list_snapshots' loop) or one
\* page fetch (fetch_snapshot_html), one client.get per step.  A client.get,
\* with whatever redirects the HTTP client follows inside it, is one request.
\* It comes back with a 2xx response (ok; for the index also a 2xx body that
\* is not JSON, or JSON of the wrong shape), with 429, with another non-2xx
\* status, or it raises (timeout, connection error).
Fetcher == "fetch_snapshot_html"
Indexer == "_fetch_cdx"
HttpKinds(op) ==
    IF op = Fetcher THEN {"ok", "429", "status", "timeout", "connect"}
    ELSE {"ok", "429", "status", "timeout", "connect", "not_json", "malformed"}
HttpBodies(c, kind) ==
    IF kind # "ok" THEN {None}
    ELSE IF c.op = Fetcher THEN {Some(page) : page \in Pages(c.platform)}
    ELSE {Some(rows) : rows \in CdxRows(c.match_type)}

NewHttpCall(op, platform, timestamp, original, match_type) ==
    [op |-> op, pc |-> "request", platform |-> platform, timestamp |-> timestamp,
     original |-> original, match_type |-> match_type, attempt |-> 0,
     html |-> None, archived_url |-> None, found |-> << >>, raised |-> FALSE,
     \* history: the kinds of the responses and the order of requests and sleeps
     responses |-> << >>, events |-> << >>]

\* A variant of the retry rule that retries after any failed request.
Retries_any_failure(c, kind) == kind # "ok" /\ Len(c.responses) = 1

\* The 429 branch, asked with the response already noted in c.  The Instagram
\* fetch sleeps and continues its two-turn loop on every 429; the other
\* functions retry inline, once, after the first response only.
Retries(c, kind) ==
    /\ kind = "429"
    /\ (c.op = Fetcher /\ c.platform = PLATFORM) \/ Len(c.responses) = 1

\* A variant of the fetch's handlers that catches HTTPStatusError only.
Swallowed_status_only(c, kind) == kind \in {"429", "status"}

\* Whether the exception of a failed request is caught before it leaves the
\* layer: fetch_snapshot_html catches every Exception; the index query's
\* failures are caught by list_snapshots (Instagram) or by _fetch_cdx itself
\* (Twitter, YouTube), whose rows are read outside the try.
Swallowed(c, kind) ==
    IF c.op = Fetcher THEN TRUE
    ELSE ~_fetch_cdx(c.platform, [kind |-> IF kind = "malformed" THEN "malformed"
                                                ELSE "failed",
                                  rows |-> << >>]).raises
         \/ c.platform = PLATFORM

HttpReturned(c, html, found, raised) ==
    [c EXCEPT !.pc = "returned", !.html = html, !.found = found, !.raised = raised,
              !.archived_url = IF c.op = Fetcher /\ ~raised
                               THEN Some(_build_archived_url(c.timestamp, c.original))
                               ELSE None]

\* resp.raise_for_status() and what follows it.
Decided(c, kind, body) ==
    IF kind = "ok"
    THEN IF c.op = Fetcher THEN HttpReturned(c, body, << >>, FALSE)
         ELSE HttpReturned(c, None, Val(body), FALSE)
    ELSE HttpReturned(c, None, << >>, ~Swallowed(c, kind))

Answered(c, kind, body) ==
    IF Retries(c, kind) THEN [c EXCEPT !.pc = "sleep"] ELSE Decided(c, kind, body)

Get ==
    /\ call.op \in {Fetcher, Indexer} /\ call.pc = "request"
    /\ \E kind \in HttpKinds(call.op) : \E body \in HttpBodies(call, kind) :
          call' = Answered([call EXCEPT !.responses = Append(@, kind),
                                        !.events = Append(@, "get")], kind, body)
    /\ UNCHANGED << tables, run, nextJob, profile, index, history >>

\* time.sleep after a 429, then the second request; the Instagram fetch's
\* loop has two turns and returns absent HTML after the second.
Backoff ==
    /\ call.op \in {Fetcher, Indexer} /\ call.pc = "sleep"
    /\ call' = IF call.op = Fetcher /\ call.platform = PLATFORM /\ call.attempt = 1
               THEN HttpReturned([call EXCEPT !.events = Append(@, "sleep")],
                                 None, << >>, FALSE)
               ELSE [call EXCEPT !.pc = "request", !.attempt = @ + 1,
                                 !.events = Append(@, "sleep")]
    /\ UNCHANGED << tables, run, nextJob, profile, index, history >>

InitHttp ==
    /\ jobs = << >>
    /\ snaps = {}
    /\ cache = {}
    /\ run = [j \in JobIds |-> NoTask]
    /\ nextJob = 1
    /\ profile \in Platforms
    /\ index = << >>
    /\ ack = {}
    /\ effects = [j \in JobIds |-> NoEffects]
    /\ cacheLog = {}
    /\ lastUpsert = {}
    /\ call \in {NewHttpCall(Fetcher, profile, ts, u, "") :
                    ts \in JobTimestamps, u \in {ModernUrl, LegacyUrl}}
             \cup {NewHttpCall(Indexer, profile, 0, ModernUrl, mt) :
                    mt \in {"prefix", "exact"}}

NextHttp == Get \/ Backoff

SpecHttp == InitHttp /\ [][NextHttp]_vars

\* ------------------------------------------- handles and lookups alone
\* A handle is the sequence of its characters.  "domain" stands for the host
\* name of the platform (twitter.com, youtube.com) and "https://" for the
\* scheme; "A" is an upper-case letter, "a" and "b" are lower-case ones.
RECURSIVE lstrip(_, _)
lstrip(s, ch) == IF s # << >> /\ Head(s) = ch THEN lstrip(Tail(s), ch) ELSE s
RECURSIVE rstrip(_, _)
rstrip(s, ch) ==
    IF s # << >> /\ s[Len(s)] = ch THEN rstrip(SubSeq(s, 1, Len(s) - 1), ch) ELSE s
strip(s) == rstrip(lstrip(s, " "), " ")
replace_none(s, ch) == SelectSeq(s, LAMBDA c : c # ch)
lower(s) == [k \in DOMAIN s |-> IF s[k] = "A" THEN "a" ELSE s[k]]
Contains(s, ch) == \E k \in DOMAIN s : s[k] = ch
\* s.split(ch)[0]: what stands before the first ch.
RECURSIVE Before(_, _)
Before(s, ch) ==
    IF s = << >> \/ Head(s) = ch THEN << >> ELSE << Head(s) >> \o Before(Tail(s), ch)
\* s.split()[0]: the first word; no word at all raises IndexError.
HasWord(s) == lstrip(s, " ") # << >>
FirstWord(s) == Before(lstrip(s, " "), " ")
\* s.split("domain/")[-1]: what stands after the last "domain/".
HasSep(s) == \E k \in 1..(Len(s) - 1) : s[k] = "domain" /\ s[k + 1] = "/"
AfterSep(s) ==
    LET k == CHOOSE k \in 1..(Len(s) - 1) :
                 /\ s[k] = "domain" /\ s[k + 1] = "/"
                 /\ \A l \in (k + 1)..(Len(s) - 1) : ~(s[l] = "domain" /\ s[l + 1] = "/")
    IN SubSeq(s, k + 2, Len(s))
WithScheme(s) == IF s # << >> /\ Head(s) = "https://" THEN s ELSE << "https://" >> \o s

NoUrl == [raised |-> FALSE, canonical_url |-> << >>]
Canonical(url) == [raised |-> FALSE, canonical_url |-> url]
IndexError == [raised |-> TRUE, canonical_url |-> << >>]

_normalize_instagram_username(username) == lower(replace_none(strip(username), "@"))

\* normalize_username of the Twitter connector.
normalize_username(username) ==
    LET s == strip(username)
    IN IF s = << >> THEN NoUrl
       ELSE IF Contains(s, "domain")
       THEN LET u == rstrip(WithScheme(s), "/")
            IN IF HasSep(u) /\ Before(rstrip(AfterSep(u), "/"), "/") # << >>
               THEN Canonical(<< "https://twitter.com/" >>
                              \o Before(rstrip(AfterSep(u), "/"), "/"))
               ELSE NoUrl
       ELSE IF ~HasWord(lstrip(s, "@")) THEN IndexError
       ELSE IF rstrip(FirstWord(lstrip(s, "@")), "/") # << >>
       THEN Canonical(<< "https://twitter.com/" >> \o rstrip(FirstWord(lstrip(s, "@")), "/"))
       ELSE NoUrl

canonicalize_youtube_input(input_str) ==
    LET s == strip(input_str)
    IN IF s = << >> THEN NoUrl
       ELSE IF Head(s) = "@"
       THEN IF ~HasWord(lstrip(s, "@")) THEN IndexError
            ELSE IF rstrip(FirstWord(lstrip(s, "@")), "/") # << >>
            THEN Canonical(<< "https://www.youtube.com/@" >>
                           \o rstrip(FirstWord(lstrip(s, "@")), "/"))
            ELSE NoUrl
       ELSE LET u == IF Contains(s, "domain") THEN rstrip(WithScheme(s), "/") ELSE s
            IN IF Contains(s, "domain") /\ HasSep(u) THEN Canonical(u)
               ELSE IF Head(u) # "https://"
               THEN Canonical(<< "https://www.youtube.com/@" >> \o rstrip(FirstWord(u), "/"))
               ELSE Canonical(u)

\* What create_*_job and cache_first_* make of a handle before they touch
\* the store or the network.
CanonicalOf(platform, handle) ==
    IF platform = PLATFORM
    THEN IF _normalize_instagram_username(handle) = << >> THEN NoUrl
         ELSE Canonical(<< "https://www.instagram.com/" >>
                        \o _normalize_instagram_username(handle) \o << "/" >>)
    ELSE IF strip(handle) = << >> THEN NoUrl
    ELSE IF platform = PLATFORM_TWITTER THEN normalize_username(strip(handle))
    ELSE canonicalize_youtube_input(strip(handle))

Handles ==
    {<< >>, << " " >>, << "@" >>, << "@", " " >>, << "@", "/" >>, << "/" >>,
     << "a" >>, << "@", "a" >>, << "A" >>, << " ", "a", "/" >>, << "a", " ", "b" >>,
     << "domain" >>, << "domain", "/" >>, << "domain", "/", "a" >>,
     << "https://", "domain", "/", "a", "/" >>}

IdleCall ==
    [op |-> "none", pc |-> "idle", calls |-> 0, handle |-> << >>, force_live |-> FALSE,
     limit |-> 0, canonical_url |-> << >>, read |-> FALSE, held |-> {}, cache_rows |-> {},
     index_calls |-> 0, fetch_calls |-> 0, cache_writes |-> 0, job_rows |-> 0,
     results |-> << >>, source |-> "", returned |-> << >>]

Idle == call.pc \in {"idle", "returned", "raised"}

\* _get_cache_rows: the rows of the platform whose canonical URL matches
\* without regard to case.
_get_cache_rows(c, platform, canonical_url) ==
    {r \in c : r.platform = platform /\ lower(r.canonical_url) = lower(canonical_url)}

\* cache_first_* is called.
CacheFirstCall(handle, force_live, limit) ==
    /\ Idle
    /\ call.calls < MaxCalls
    /\ call' = [IdleCall EXCEPT !.op = "cache_first", !.pc = "called",
                                !.calls = call.calls + 1, !.handle = handle,
                                !.force_live = force_live, !.limit = limit]
    /\ UNCHANGED << tables, run, nextJob, profile, index, history >>

\* Its handle is normalised: a handle without a canonical URL is answered
\* with an empty result, unless the normaliser raised.
NormalizeHandle ==
    /\ call.op = "cache_first" /\ call.pc = "called"
    /\ LET n == CanonicalOf(profile, call.handle)
       IN call' = IF n.raised THEN [call EXCEPT !.pc = "raised"]
                  ELSE IF n.canonical_url = << >>
                  THEN [call EXCEPT !.pc = "returned", !.source = "live"]
                  ELSE [call EXCEPT !.pc = "read", !.canonical_url = n.canonical_url]
    /\ UNCHANGED << tables, run, nextJob, profile, index, history >>

\* The cache is read; a store error is swallowed and reads as no rows.  Rows
\* and no force_live answer from the cache.
GetCacheRows ==
    /\ call.op = "cache_first" /\ call.pc = "read"
    /\ \E failed \in BOOLEAN :
         LET held == _get_cache_rows(cache, profile, call.canonical_url)
             cache_rows == IF failed THEN {} ELSE held
         IN call' = IF cache_rows # {} /\ ~call.force_live
                    THEN [call EXCEPT !.pc = "returned", !.read = TRUE, !.held = held,
                                      !.cache_rows = cache_rows, !.source = "cache",
                                      !.returned = AscendingSnaps({r.timestamp : r \in cache_rows})]
                    ELSE [call EXCEPT !.pc = "live", !.read = TRUE, !.held = held,
                                      !.cache_rows = cache_rows]
    /\ UNCHANGED << tables, run, nextJob, profile, index, history >>

LookupRow(platform, canonical_url, s, html) ==
    [LiveCacheRow(platform, s, html) EXCEPT !.canonical_url = canonical_url]

\* One live batch: the index is listed, the sample taken, every sampled
\* snapshot fetched.
LiveBatch ==
    /\ call.op = "cache_first" /\ call.pc = "live"
    /\ \E raw_snapshots \in ListAnswers(index) :
         LET sampled == SampledOf[profile][raw_snapshots][Clamp(call.limit)]
         IN \E htmls \in [1..Len(sampled) -> FetchOutcomes(profile)] :
              LET results == [k \in 1..Len(sampled) |->
                                LookupRow(profile, call.canonical_url, sampled[k], htmls[k])]
                  source == IF call.cache_rows # {} THEN "mixed" ELSE "live"
              IN call' = [call EXCEPT !.pc = IF results = << >> THEN "returned" ELSE "upsert",
                                      !.index_calls = call.index_calls + 1,
                                      !.fetch_calls = call.fetch_calls + Len(sampled),
                                      !.results = results, !.source = source,
                                      !.returned = [k \in DOMAIN results |->
                                                      Snapshot(results[k].timestamp,
                                                               results[k].original_url)]]
    /\ UNCHANGED << tables, run, nextJob, profile, index, history >>

\* _upsert_*_cache: one transaction for all results, its failure swallowed.
UpsertResults ==
    /\ call.op = "cache_first" /\ call.pc = "upsert"
    /\ \E failed \in BOOLEAN :
         /\ cache' = IF failed THEN cache ELSE UpsertAll(cache, call.results)
         /\ call' = [call EXCEPT !.pc = "returned",
                                 !.cache_writes = IF failed THEN 0 ELSE Len(call.results)]
    /\ UNCHANGED << jobs, snaps, run, nextJob, profile, index, history >>

\* create_*_job: the handle is normalised, then the row inserted; the INSERT
\* can fail.
CreateJobFor(handle, sample) ==
    /\ Idle
    /\ call.calls < MaxCalls
    /\ nextJob \in JobIds
    /\ LET n == CanonicalOf(profile, handle)
           made == [IdleCall EXCEPT !.op = "create_job", !.calls = call.calls + 1,
                                    !.handle = handle, !.job_rows = Cardinality(DOMAIN jobs)]
       IN IF n.raised \/ n.canonical_url = << >>
          THEN /\ call' = [made EXCEPT !.pc = "raised"]
               /\ UNCHANGED << jobs, nextJob >>
          ELSE \E failed \in BOOLEAN :
                 IF failed
                 THEN /\ call' = [made EXCEPT !.pc = "raised"]
                      /\ UNCHANGED << jobs, nextJob >>
                 ELSE /\ call' = [made EXCEPT !.pc = "returned",
                                              !.canonical_url = n.canonical_url]
                      /\ jobs' = jobs @@ (nextJob :>
                                    [NewJobRow(profile, Clamp(sample))
                                        EXCEPT !.canonical_url = n.canonical_url])
                      /\ nextJob' = nextJob + 1
    /\ UNCHANGED << snaps, cache, run, profile, index, history >>

InitLookup ==
    /\ jobs = << >>
    /\ snaps = {}
    /\ cache = {}
    /\ run = [j \in JobIds |-> NoTask]
    /\ nextJob = 1
    /\ profile \in Platforms
    /\ index \in IndexAnswers
    /\ ack = {}
    /\ effects = [j \in JobIds |-> NoEffects]
    /\ cacheLog = {}
    /\ lastUpsert = {}
    /\ call = IdleCall

NextLookup ==
    \/ \E handle \in Handles, force_live \in BOOLEAN, limit \in 1..MaxSample :
         CacheFirstCall(handle, force_live, limit)
    \/ NormalizeHandle
    \/ GetCacheRows
    \/ LiveBatch
    \/ UpsertResults
    \/ \E handle \in Handles : CreateJobFor(handle, 1)

SpecLookup == InitLookup /\ [][NextLookup]_vars

\* ------------------------------------------------------------ properties
MetricColumns == {"followers", "following", "posts", "subscribers"}
Counters ==
    {"total", "processed", "snapshots_found", "snapshots_sampled",
     "snapshots_with_metrics", "snapshots_cached", "snapshots_fetched"}

\* The job's rows in wayback_job_snapshots.
RowsOf(j) == {r \in snaps : r.job_id = j}

\* A cache entry (a row, or the optional row of a lookup) with a metric.
RowHoldsMetric(r) == \E f \in MetricColumns : ~IsNone(r[f])
HoldsMetric(cached) == ~IsNone(cached) /\ RowHoldsMetric(Val(cached))

\* C1: once a job's status is completed, failed or canceled, no step of its
\* runner and no cancel_job call changes that status.
TerminalStatusIsFinal ==
    [][\A j \in DOMAIN jobs \cap DOMAIN jobs' :
          jobs[j].status \in Terminal => jobs'[j].status = jobs[j].status]_vars

\* C2: after cancel_job has returned true for a job, the runner finishes at
\* most the snapshot iteration already in flight: no iteration passes its
\* status re-read any more.
NoIterationAfterCancel ==
    [][\A j \in ack : ~(run[j].pc = "check" /\ run'[j].pc = "lookup")]_vars

\* C3: in every state and for every job id, a cancel_job call returns true
\* exactly when the job exists with status queued or running; it then sets
\* that status to canceled and nothing else, and otherwise changes nothing.
CancelContract ==
    \A j \in JobIds :
       LET r == cancel_job(jobs, j)
           cancelable == j \in DOMAIN jobs /\ jobs[j].status \in {"queued", "running"}
       IN /\ r.returns = cancelable
          /\ cancelable => r.jobs = [jobs EXCEPT ![j].status = "canceled"]
          /\ ~cancelable => r.jobs = jobs
\* A cancel has returned true and set canceled, and a second call on that job
\* now returns false.
CancelActed ==
    \E j \in ack : jobs[j].status = "canceled" /\ ~cancel_job(jobs, j).returns

\* C4: when the status re-read of an iteration observes canceled, the task
\* returns in that step without touching the store, and from then on it
\* makes no move: no fetch and no write to the job row, the job's snapshot
\* rows or the cache.
StopsOnObservedCancel ==
    [][\A j \in JobIds :
          /\ (/\ run[j].pc = "check"
              /\ j \in DOMAIN jobs /\ jobs[j].status = "canceled"
              /\ run'[j].pc \notin {"check", "except"})
             => /\ run'[j].pc = "stopped"
                /\ effects'[j] = effects[j]
                /\ tables' = tables
          /\ run[j].pc = "stopped"
             => /\ run'[j] = run[j]
                /\ effects'[j] = effects[j]]_vars
\* A task has stopped on an observed cancel after committing one snapshot,
\* whose cache entry is still there.
StoppedAfterOneSnapshot ==
    \E j \in JobIds :
       /\ run[j].pc = "stopped"
       /\ run[j].processed = 1
       /\ \E r \in cache : r.timestamp = run[j].sampled[1].timestamp
       /\ \E r \in snaps : r.job_id = j

\* C5: once a job's status is terminal, its counters never change again.
CountersFrozenWhenTerminal ==
    [][\A j \in DOMAIN jobs \cap DOMAIN jobs' :
          jobs[j].status \in Terminal
          => \A f \in Counters : jobs'[j][f] = jobs[j][f]]_vars

\* The job's snapshot rows served from the cache so far.
RowsFromCache(j) == {r \in snaps : r.job_id = j /\ r.source = "cache"}

\* C6: a sampled snapshot whose cache entry holds a metric at lookup time is
\* neither fetched nor upserted; its job row gets source "cache" and the
\* cached metrics, confidence and evidence, and snapshots_cached counts it.
\* A task fetches only for the lookups that missed, so a job whose snapshots
\* are all cached with metrics performs no fetch.
CacheHitServedFromCache ==
    \A j \in JobIds :
       /\ (run[j].pc = "persist" /\ HoldsMetric(run[j].it.cached))
          => /\ run[j].it.source = "cache"
             /\ IsNone(run[j].it.fetchedTs) /\ IsNone(run[j].it.html)
             /\ ~run[j].it.upserted
             /\ RunnerSnapRow(j).source = "cache"
             /\ \A f \in MetricColumns \cup {"confidence", "evidence"} :
                   RunnerSnapRow(j)[f] = Val(run[j].it.cached)[f]
             /\ run[j].snapshots_cached = Cardinality(RowsFromCache(j)) + 1
       /\ effects[j].fetches
            = run[j].snapshots_fetched - (IF run[j].pc = "fetch" THEN 1 ELSE 0)
\* A job is about to record its second snapshot from the cache, after
\* recording the first one from the cache too, without a single fetch.
AllServedFromCache ==
    \E j \in JobIds :
       /\ run[j].pc = "persist" /\ run[j].i = 2
       /\ HoldsMetric(run[j].it.cached)
       /\ Cardinality(RowsFromCache(j)) = 1
       /\ effects[j].fetches = 0

\* C7: a sampled snapshot whose cache entry is missing or holds no metric is
\* fetched live, its result is upserted into the cache, and its job row gets
\* source "wayback": an entry without metrics is never taken as a hit.
CacheMissFetchedLive ==
    \A j \in JobIds :
       (run[j].pc = "persist" /\ ~HoldsMetric(run[j].it.cached))
       => /\ run[j].it.source = "wayback"
          /\ RunnerSnapRow(j).source = "wayback"
          /\ run[j].it.fetchedTs = Some(CurrentSnap(j).timestamp)
          /\ run[j].it.upserted
          /\ \E w \in cacheLog : w.key = CacheKey(RunnerCacheRow(j))
\* A job has found an entry without metrics, fetched and upserted.
EmptyEntryRefetched ==
    \E j \in JobIds :
       /\ run[j].pc = "persist"
       /\ ~IsNone(run[j].it.cached) /\ ~HoldsMetric(run[j].it.cached)
       /\ run[j].it.source = "wayback" /\ run[j].it.upserted

\* C8: every write to the cache is made by an operation that has fetched the
\* written key live before; every entry of the cache stems from such a write.
CacheWritesFollowFetch ==
    /\ \A w \in cacheLog : w.fetched
    /\ \A r \in cache : \E w \in cacheLog : w.key = CacheKey(r)
\* The cache has been written by a job (after its fetch) and by a cache-first
\* request for another key.
BothPathsWrote ==
    \E j \in JobIds :
       /\ run[j].pc = "persist" /\ run[j].it.upserted
       /\ \E w \in cacheLog : w.key = CacheKey(RunnerCacheRow(j)) /\ w.fetched
       /\ \E w \in cacheLog : w.key # CacheKey(RunnerCacheRow(j))

\* C9: once a cache entry holds a metric, no step leaves the entry of that
\* key without one.
MetricsNeverLost ==
    [][\A r \in cache :
          RowHoldsMetric(r)
          => \E q \in cache' : CacheKey(q) = CacheKey(r) /\ RowHoldsMetric(q)]_vars

\* C10: the cache holds exactly one entry per key ever upserted, and its
\* metrics, confidence and evidence are those of the key's last upsert.
LastUpsertWins ==
    /\ \A r, q \in cache : CacheKey(r) = CacheKey(q) => r = q
    /\ {CacheKey(r) : r \in cache} = {CacheKey(l) : l \in lastUpsert}
    /\ \A r \in cache, l \in lastUpsert :
          CacheKey(r) = CacheKey(l)
          => \A f \in MetricColumns \cup {"confidence", "evidence"} : r[f] = l[f]
\* Two jobs have upserted the same key with different results.
TwoUpsertsOneKey ==
    /\ run[1].pc = "persist" /\ run[2].pc = "persist"
    /\ run[1].it.upserted /\ run[2].it.upserted
    /\ CacheKey(RunnerCacheRow(1)) = CacheKey(RunnerCacheRow(2))
    /\ run[1].it.m # run[2].it.m
    /\ \E r \in cache : CacheKey(r) = CacheKey(RunnerCacheRow(1))

\* C11: a completed job whose listing found more snapshots than its sample K
\* has exactly K snapshot rows, total = K and processed = K.
SampleSizeHonoured ==
    \A j \in DOMAIN jobs :
       (/\ jobs[j].status = "completed" /\ run[j].pc = "done"
        /\ run[j].snapshots_found > jobs[j].sample)
       => /\ jobs[j].total = Some(jobs[j].sample)
          /\ jobs[j].processed = Some(jobs[j].sample)
          /\ Cardinality(RowsOf(j)) = jobs[j].sample

Samplers == {"evenly_sample_snapshots", "evenly_sample"}
YearsIn(xs) == {Year(xs[k].timestamp) : k \in DOMAIN xs}

\* C12: a sampler called with N snapshots and a sample K returns at most
\* min(K, N) snapshots, each one an element of its input, none of them twice.
SamplerBound ==
    (call.op \in Samplers /\ call.pc = "returned")
    => /\ Len(call.result) <= Min2(call.sample, Len(call.snapshots))
       /\ \A k \in DOMAIN call.result :
             \E n \in DOMAIN call.snapshots : call.result[k] = call.snapshots[n]
       /\ \A a, b \in DOMAIN call.result : a # b => call.result[a] # call.result[b]

\* C13: a sampler called with at most K snapshots returns its input as it
\* was given: the same snapshots in the same order.
SmallInputUnchanged ==
    (call.op \in Samplers /\ call.pc = "returned" /\ Len(call.snapshots) <= call.sample)
    => call.result = call.snapshots

\* C14: the year-stratified sampler called with more than K snapshots returns
\* at least one snapshot of every capture year of its input.
EveryYearSampled ==
    (/\ call.op = "evenly_sample_snapshots" /\ call.pc = "returned"
     /\ Len(call.snapshots) > call.sample)
    => YearsIn(call.snapshots) \subseteq YearsIn(call.result)
\* The stratified sampler has returned for an input with more capture years
\* than K, and has left some of the input out.
MoreYearsThanSample ==
    /\ call.op = "evenly_sample_snapshots" /\ call.pc = "returned"
    /\ Cardinality(YearsIn(call.snapshots)) > call.sample
    /\ Len(call.result) < Len(call.snapshots)
    /\ YearsIn(call.result) = YearsIn(call.snapshots)

\* C15: deduplicate_snapshots keeps exactly one snapshot per (timestamp,
\* normalized URL) key of its input: the first one among those of the
\* highest URL-preference score with that key.
DedupKeepsBest ==
    (call.op = "deduplicate_snapshots" /\ call.pc = "returned")
    => /\ \A n \in DOMAIN call.snapshots :
             Cardinality({k \in DOMAIN call.result :
                            DedupKey(call.result[k]) = DedupKey(call.snapshots[n])}) = 1
       /\ \A k \in DOMAIN call.result :
             \E n \in DOMAIN call.snapshots :
                /\ call.snapshots[n] = call.result[k]
                /\ \A m \in DOMAIN call.snapshots :
                      DedupKey(call.snapshots[m]) = DedupKey(call.result[k])
                      => \/ _url_preference_score(call.snapshots[m].original)
                              < _url_preference_score(call.result[k].original)
                         \/ /\ _url_preference_score(call.snapshots[m].original)
                                 = _url_preference_score(call.result[k].original)
                            /\ n <= m
\* One capture given as http+bare, then https+www with and without the
\* trailing slash: the first https+www spelling is the one kept.
DedupPreferredHttpsWww ==
    /\ call.op = "deduplicate_snapshots" /\ call.pc = "returned"
    /\ call.snapshots = << Snapshot(Ts(1), LegacyUrl), Snapshot(Ts(1), ModernUrl),
                           Snapshot(Ts(1), ModernNoSlash) >>
    /\ call.result = << Snapshot(Ts(1), ModernUrl) >>

ListReturned == call.op = "list_snapshots" /\ call.pc = "returned" /\ ~call.raised

\* C16: for every platform, list_snapshots returns its snapshots in ascending
\* timestamp order.
ListAscending ==
    ListReturned
    => \A a, b \in DOMAIN call.result :
          a < b => call.result[a].timestamp <= call.result[b].timestamp

\* C17: for every platform, list_snapshots never returns two snapshots with
\* the same timestamp.
ListTimestampsDistinct ==
    ListReturned
    => \A a, b \in DOMAIN call.result :
          a # b => call.result[a].timestamp # call.result[b].timestamp
\* A call has returned two captures although the index reported one of the
\* timestamps more than once.
RepeatedTimestampMerged ==
    ListReturned /\ call.repeated /\ Len(call.result) = 2

\* C18: every snapshot the Instagram list_snapshots returns is a capture of
\* the profile page itself, never of a sub-page.
OnlyProfilePages ==
    (ListReturned /\ call.platform = PLATFORM)
    => \A k \in DOMAIN call.result : _is_profile_url(call.result[k].original, "h")

\* C19: for every platform, list_snapshots queries every variant of
\* urls_to_try and returns every timestamp a variant reported for the
\* profile, once.
UnionOfAllVariants ==
    ListReturned
    => /\ 1..Len(urls_to_try(call.platform)) \subseteq call.queried
       /\ call.reported \subseteq TimestampsOf(call.result)

\* C20: list_snapshots never raises; a failed variant does not end the loop
\* (the call returns after a failure only when that variant was the last of
\* its list), and when every variant failed the result is empty.
FailuresSwallowed ==
    (call.op = "list_snapshots")
    => /\ ~call.raised
       /\ (call.pc = "returned" /\ call.last \in {"failed", "malformed"})
          => \/ call.queried = 1..Len(urls_to_try(call.platform))
             \/ call.queried = 1..(Len(urls_to_try(call.platform)) + Len(fallback_urls))
       /\ (call.pc = "returned" /\ call.allFailed) => call.result = << >>

\* The outcomes of a request that are errors of the request: the rate limit,
\* another non-2xx status, a timeout, a connection error, a body resp.json()
\* cannot decode.
RequestErrors == {"429", "status", "timeout", "connect", "not_json"}
LastResponse == call.responses[Len(call.responses)]
HttpReturns == call.op \in {Fetcher, Indexer} /\ call.pc = "returned"

FetchNeverRaises ==
    HttpReturns /\ call.op = Fetcher =>
        /\ ~call.raised
        /\ call.archived_url = Some(_build_archived_url(call.timestamp, call.original))
        /\ ~IsNone(call.html) <=> LastResponse = "ok"
        /\ ~IsNone(call.html) => Val(call.html) \in Pages(call.platform)

\* A fetch whose retry after a 429 timed out has returned absent HTML.
RetryTimedOut ==
    /\ HttpReturns /\ call.op = Fetcher
    /\ call.responses = << "429", "timeout" >>
    /\ IsNone(call.html)

\* The job's row for the snapshot the task j is working on.
CurrentRows(j, t) == {r \in t : r.job_id = j /\ r.timestamp = CurrentSnap(j).timestamp}

\* C23: with the store reachable and nobody canceling, a failed fetch does not
\* abort the job: the step after a fetch is the cache upsert, the row written
\* for a failed fetch has every metric absent, and the task ends only with
\* the job completed, processed = total = the number of sampled snapshots and
\* a row for every sampled snapshot.
FetchFailureTolerated ==
    [][\A j \in JobIds :
         /\ run[j].pc = "fetch" /\ run'[j].pc # "fetch" => run'[j].pc = "upsert"
         /\ (/\ run[j].pc = "persist" /\ run'[j].pc # "persist"
             /\ run[j].it.source = "wayback" /\ IsNone(run[j].it.html))
            => /\ run'[j].pc \in {"check", "finish"}
               /\ CurrentRows(j, snaps') # {}
               /\ \A r \in CurrentRows(j, snaps') :
                     r.source = "wayback" /\ \A f \in MetricColumns : IsNone(r[f])
         /\ run[j].pc # "done" /\ run'[j].pc = "done"
            => /\ jobs'[j].status = "completed"
               /\ jobs'[j].processed = Some(Len(run[j].sampled))
               /\ jobs'[j].total = jobs'[j].processed
               /\ \A k \in DOMAIN run[j].sampled :
                     \E r \in snaps' : r.job_id = j /\ r.timestamp = run[j].sampled[k].timestamp
    ]_vars

\* A job has completed with one fetch failed and another one successful.
OneFetchOfTwoFailed ==
    \E j \in JobIds :
        /\ run[j].pc = "done" /\ jobs[j].status = "completed"
        /\ jobs[j].processed = Some(2) /\ jobs[j].total = Some(2)
        /\ \E r \in RowsOf(j) : r.source = "wayback" /\ ~RowHoldsMetric(r)
        /\ \E r \in RowsOf(j) : r.source = "wayback" /\ RowHoldsMetric(r)

\* C24: when an exception has left the runner's body, the task ends with the
\* job failed and its error set to the exception's string; it writes no
\* snapshot row and no cache row any more, and a task that has ended never
\* runs again.
ExceptionFailsJob ==
    [][\A j \in JobIds :
         /\ run[j].pc = "except" /\ run'[j].pc # "except"
            => /\ run'[j].pc = "done"
               /\ snaps' = snaps /\ cache' = cache
               /\ ExistsJob(jobs, j) =>
                     jobs'[j].status = "failed" /\ jobs'[j].error = run[j].e
         /\ run[j].pc = "done" => run'[j].pc = "done"
    ]_vars

\* C25: a job that is running eventually is not running any more.
LeavesRunning ==
    \A j \in JobIds :
        (ExistsJob(jobs, j) /\ jobs[j].status = "running")
        ~> (~ExistsJob(jobs, j) \/ jobs[j].status # "running")

\* C26: the summary a completing job gets follows the rules in their order,
\* read off the job's rows: nothing found, the no-snapshots message; rows but
\* none with a metric, the no-extractable-metrics message; every row from
\* the cache, the all-from-cache message; otherwise none.  The all-from-cache
\* message is written only by a task that made no fetch.
SummaryRules ==
    [][\A j \in JobIds :
         run[j].pc = "finish" /\ run'[j].pc = "done" /\ ExistsJob(jobs, j)
         => /\ jobs'[j].status = "completed"
            /\ jobs'[j].summary =
                  IF run[j].snapshots_found = 0
                  THEN Some("No Wayback snapshots found for selected date range.")
                  ELSE IF \A r \in RowsOf(j) : ~RowHoldsMetric(r)
                  THEN Some("Snapshots found but no extractable metrics.")
                  ELSE IF \A r \in RowsOf(j) : r.source = "cache"
                  THEN Some("All snapshots served from cache.")
                  ELSE None
            /\ jobs'[j].summary = Some("All snapshots served from cache.")
               => effects[j].fetches = 0
    ]_vars

\* A job has completed with one snapshot from the cache and one fetched with
\* its metrics: no summary.
CompletedMixed ==
    \E j \in JobIds :
        /\ run[j].pc = "done" /\ jobs[j].status = "completed"
        /\ IsNone(jobs[j].summary)
        /\ \E r \in RowsOf(j) : r.source = "cache"
        /\ \E r \in RowsOf(j) : r.source = "wayback" /\ RowHoldsMetric(r)

\* The rows get_job's answer is merged from, and its entry for a timestamp.
OwnRows == {r \in snaps : r.job_id = call.job_id}
ProfileEntries ==
    {r \in cache : /\ r.platform = jobs[call.job_id].platform
                   /\ r.canonical_url = jobs[call.job_id].canonical_url}
AllResults == Val(call.returns).all_results
SameValues(e, r) ==
    /\ e.timestamp = r.timestamp /\ e.archived_url = r.archived_url
    /\ \A f \in MetricColumns : e[f] = r[f]
    /\ e.confidence = r.confidence /\ e.evidence = r.evidence

\* C27: all_results of get_job holds one entry per timestamp of the job's
\* rows and the profile's cache entries; where both hold the timestamp the
\* entry is the cache's if only the cache entry has a metric and the job's
\* otherwise; an entry without a metric means no source has one for it.
MergedResults ==
    call.op = "get_job" /\ ~IsNone(call.returns) =>
        /\ {AllResults[k].timestamp : k \in DOMAIN AllResults}
              = {r.timestamp : r \in OwnRows \cup ProfileEntries}
        /\ \A a, b \in DOMAIN AllResults :
              a # b => AllResults[a].timestamp # AllResults[b].timestamp
        /\ \A k \in DOMAIN AllResults :
              LET e == AllResults[k]
                  own == {r \in OwnRows : r.timestamp = e.timestamp}
                  entries == {r \in ProfileEntries : r.timestamp = e.timestamp}
              IN /\ \/ \E r \in own :
                          /\ SameValues(e, r) /\ e.source = r.source
                          /\ \A c \in entries : RowHoldsMetric(c) => RowHoldsMetric(r)
                    \/ \E c \in entries :
                          /\ SameValues(e, c) /\ e.source = "cache"
                          /\ \A r \in own : RowHoldsMetric(c) /\ ~RowHoldsMetric(r)
                 /\ ~RowHoldsMetric(e) => \A r \in own \cup entries : ~RowHoldsMetric(r)

\* get_job has answered for a job whose row has no metric at a timestamp at
\* which the cache has one, and whose other row has a metric the cache lost.
MergedBothWays ==
    /\ call.op = "get_job" /\ ~IsNone(call.returns)
    /\ \E r \in OwnRows : \E c \in ProfileEntries :
          r.timestamp = c.timestamp /\ ~RowHoldsMetric(r) /\ RowHoldsMetric(c)
    /\ \E r \in OwnRows : \E c \in ProfileEntries :
          r.timestamp = c.timestamp /\ RowHoldsMetric(r) /\ ~RowHoldsMetric(c)

Extractors == {"extract_instagram_metrics", "extract_followers", "extract_subscribers"}
ExtractorReturned == call.op \in Extractors /\ call.pc = "returned"

\* C29: in every result of the extractors, for every metric, the value is
\* absent exactly when the confidence is 0.0 and exactly when the evidence
\* is absent.
ValueConfidenceEvidence ==
    ExtractorReturned =>
        \A f \in DOMAIN call.metrics :
            /\ IsNone(call.metrics[f].value) <=> call.metrics[f].confidence = 0
            /\ IsNone(call.metrics[f].value) <=> IsNone(call.metrics[f].evidence)

\* C30: when _sharedData holds a plausible followed_by count, the result of
\* extract_instagram_metrics is the structured strategy's: its three values
\* at its confidence, whatever else matches in the document.
StructuredDataFirst ==
    ExtractorReturned /\ call.op = "extract_instagram_metrics"
    /\ ~IsNone(_extract_from_shared_data(call.html))
    => LET shared == Val(_extract_from_shared_data(call.html))
       IN /\ call.metrics.followers.value = shared.f
          /\ call.metrics.followers.confidence = 75
          /\ call.metrics.following.value = shared.g
          /\ call.metrics.posts.value = shared.p
          /\ \A f \in {"following", "posts"} :
                ~IsNone(call.metrics[f].value) => call.metrics[f].confidence = 75

\* C31: every cache entry and every job snapshot row without a single metric
\* has confidence 0.0 and no evidence.
MissHasZeroConfidence ==
    \A r \in cache \cup snaps :
        ~RowHoldsMetric(r) => r.confidence = 0 /\ IsNone(r.evidence)

\* C32: a job that is queued is, after any single step, queued or running:
\* no operation takes it directly to completed, failed or canceled.
QueuedOnlyToRunning ==
    [][\A j \in DOMAIN jobs :
         jobs[j].status = "queued" /\ j \in DOMAIN jobs'
         => jobs'[j].status \in {"queued", "running"}
    ]_vars

\* C33: a cache-first lookup without force_live has read the cache before it
\* calls the index or fetches, it calls them only when the cache holds no row
\* for the canonical URL, and an answer with source "cache" comes with no
\* index call, no fetch and no cache write.
CacheBeforeNetwork ==
    call.op = "cache_first" /\ ~call.force_live =>
        /\ call.index_calls + call.fetch_calls > 0 => call.read /\ call.held = {}
        /\ call.source = "cache" =>
              call.index_calls = 0 /\ call.fetch_calls = 0 /\ call.cache_writes = 0

\* C34: a handle without a canonical URL makes create_*_job raise without
\* inserting a job row, and makes a cache-first lookup return an empty result
\* without any index call, fetch or cache write.
InvalidHandle(platform, handle) ==
    CanonicalOf(platform, handle).raised \/ CanonicalOf(platform, handle).canonical_url = << >>
InvalidInputRejected ==
    call.op \in {"create_job", "cache_first"} /\ InvalidHandle(profile, call.handle) =>
        /\ call.op = "create_job" =>
              call.pc = "raised" /\ Cardinality(DOMAIN jobs) = call.job_rows
        /\ call.op = "cache_first" /\ call.pc # "called" =>
              /\ call.pc = "returned" /\ call.returned = << >>
              /\ call.index_calls = 0 /\ call.fetch_calls = 0 /\ call.cache_writes = 0

\* C35: the archived URL the fetcher requests and the one stored in every
\* cache entry and every job row is "https://web.archive.org/web/" followed
\* by the capture's timestamp, "/" and its original URL as the index reported
\* it, whatever the fetch returned.
Reported(ts) == {index[k].original : k \in {k \in DOMAIN index : index[k].timestamp = ts}}
ArchivedUrlExact ==
    /\ \A r \in cache \cup snaps :
          \E original_url \in Reported(r.timestamp) :
              r.archived_url = << "https://web.archive.org/web/", r.timestamp, "/", original_url >>
    /\ \A j \in JobIds :
          ~IsNone(run[j].it.requested) =>
              Val(run[j].it.requested) = << "https://web.archive.org/web/",
                                            CurrentSnap(j).timestamp, "/",
                                            CurrentSnap(j).original >>
\* A legacy capture stored after a failed fetch and one stored with a metric,
\* in the cache and in a job.
ArchivedLegacyBothWays ==
    /\ \E r \in cache : r.original_url = LegacyUrl /\ ~RowHoldsMetric(r)
    /\ \E r \in cache : r.original_url = LegacyUrl /\ RowHoldsMetric(r)
    /\ \E r \in snaps : r.archived_url[4] = LegacyUrl /\ ~RowHoldsMetric(r)
    /\ \E r \in snaps : r.archived_url[4] = LegacyUrl /\ RowHoldsMetric(r)

\* C36: for every job, processed is at most total and equals the number of
\* the job's snapshot rows; a step that writes a row of the job raises
\* processed by one, and no step lowers it.
ProcessedCountsRows ==
    /\ [](\A j \in DOMAIN jobs :
            /\ Val(jobs[j].processed) <= Val(jobs[j].total)
            /\ Val(jobs[j].processed) = Cardinality(RowsOf(j)))
    /\ [][\A j \in DOMAIN jobs \cap DOMAIN jobs' :
            /\ Val(jobs'[j].processed) >= Val(jobs[j].processed)
            /\ {r \in snaps' : r.job_id = j} # RowsOf(j)
               => Val(jobs'[j].processed) = Val(jobs[j].processed) + 1
         ]_vars
\* Two jobs, one with its two rows written and one with its first of two.
ProcessedTwoAndOne ==
    \E j, k \in DOMAIN jobs :
        /\ Val(jobs[j].processed) = 2 /\ Cardinality(RowsOf(j)) = 2
        /\ Val(jobs[k].processed) = 1 /\ Val(jobs[k].total) = 2 /\ Cardinality(RowsOf(k)) = 1

\* C37: when the index has reported a capture time under two spellings of
\* the URL, the snapshot the Instagram pipeline keeps for that time is one
\* with the highest URL-preference score among the spellings reported.
HigherScoreKept ==
    call.op = "list_snapshots" /\ call.pc = "deduplicated" =>
        \A k \in DOMAIN call.deduped : \A s \in call.spelled :
            s.timestamp = call.deduped[k].timestamp
            => _url_preference_score(call.deduped[k].original)
                  >= _url_preference_score(s.original)

\* C38: a completed job has snapshots_cached + snapshots_fetched =
\* snapshots_sampled = total = processed, snapshots_with_metrics <= processed
\* and snapshots_sampled <= snapshots_found, and each of its rows with source
\* "cache" holds a metric.
CompletedCounters ==
    \A j \in DOMAIN jobs :
        jobs[j].status = "completed" =>
            /\ Val(jobs[j].snapshots_cached) + Val(jobs[j].snapshots_fetched)
                  = Val(jobs[j].snapshots_sampled)
            /\ Val(jobs[j].snapshots_sampled) = Val(jobs[j].total)
            /\ Val(jobs[j].total) = Val(jobs[j].processed)
            /\ Val(jobs[j].snapshots_with_metrics) <= Val(jobs[j].processed)
            /\ Val(jobs[j].snapshots_sampled) <= Val(jobs[j].snapshots_found)
            /\ \A r \in RowsOf(j) : r.source = "cache" => RowHoldsMetric(r)
\* A completed job of two snapshots, one from the cache and one whose fetch
\* gave no metric.
CompletedOneCachedOneMissed ==
    \E j \in DOMAIN jobs :
        /\ jobs[j].status = "completed"
        /\ Val(jobs[j].snapshots_cached) = 1 /\ Val(jobs[j].snapshots_fetched) = 1
        /\ Val(jobs[j].snapshots_with_metrics) = 1
        /\ \E r \in RowsOf(j) : r.source = "cache"
        /\ \E r \in RowsOf(j) : r.source = "wayback" /\ ~RowHoldsMetric(r)

\* C39: a job deleted under its running task stays deleted: its row never
\* comes back and no snapshot row of it exists in any later state, whatever
\* the task goes on to do.
Deleted(j) == j < nextJob /\ ~ExistsJob(jobs, j)
DeletedStaysDeleted ==
    /\ [](\A j \in JobIds : Deleted(j) => RowsOf(j) = {})
    /\ [][\A j \in JobIds :
            Deleted(j) => ~ExistsJob(jobs', j) /\ {r \in snaps' : r.job_id = j} = {}
         ]_vars
\* A task that met the missing row at its snapshot insert and has run its
\* handler, and a task whose final UPDATE, its third write, matched no row.
DeletedUnderRunner ==
    /\ call.op = "delete_job" /\ call.returns
    /\ \E j \in JobIds :
          /\ Deleted(j) /\ run[j].pc = "done"
          /\ run[j].e = Some("foreign key violation")
    /\ \E j \in JobIds :
          /\ Deleted(j) /\ run[j].pc = "done" /\ IsNone(run[j].e)
          /\ effects[j].writes = 2
====
